---------------------------- MODULE Spec2Model ----------------------------
(***************************************************************************)
(* State-machine model of dnn::Network (src/modules/utils/dnn/Network.h).  *)
(*                                                                         *)
(* The Network's own members and control flow are translated from          *)
(* Network.h.  Layer, Output, Optimizer, Callback and                      *)
(* internal::create_shuffled_batches live in headers that are not part of  *)
(* the available sources (Layer.h, Output.h, Callback.h, Optimizer.h,      *)
(* Utils/Random.h); they are modelled from their capability contracts:     *)
(* each is a deterministic function of its receiver's state and arguments, *)
(* computed over scalars modulo ScalarMod.                                 *)
(*                                                                         *)
(* Indices recorded in the call log are the C++ (0-based) layer indices.   *)
(***************************************************************************)
EXTENDS Integers, Sequences, FiniteSets, TLC

(***************************************************************************)
(* Bounds of the model.                                                    *)
(***************************************************************************)
MaxLayers == 3      \* longest pipeline built by addLayer
MaxOps == 2         \* operations performed after construction
MaxSamples == 3     \* most columns (observations) of a data set
MaxEpoch == 2       \* largest epoch count passed to fit
MaxSeed == 2        \* largest seed passed to init / fit
ScalarMod == 5      \* scalars are residues modulo ScalarMod
RngMod == 4         \* states of the random number generator

(***************************************************************************)
(* Values.                                                                 *)
(***************************************************************************)
NoError == "none"
ShapeMismatch == "ShapeMismatch"                  \* std::invalid_argument
TargetMismatch == "TargetMismatch"                \* raised by the output head
ParameterCountMismatch == "ParameterCountMismatch"
InnerLengthMismatch == "InnerLengthMismatch"      \* raised by a layer's set_parameters
NullDeref == "NullDeref"                          \* dereference of a null shared_ptr
NULL == [null |-> TRUE]

\* blaze::DynamicMatrix: rows, the observations held as columns, contents.
Matrix(r, c, v) == [rows |-> r, cols |-> c, val |-> v]
EmptyMatrix == Matrix(0, <<>>, 0)

RECURSIVE SumSeq(_)
SumSeq(s) == IF s = <<>> THEN 0 ELSE s[1] + SumSeq(Tail(s))

\* One recorded invocation of a collaborator.
Call(name, idx, arg1, arg2) == [call |-> name, layer |-> idx, a1 |-> arg1, a2 |-> arg2]
NoArg == "-"

\* What an operation leaves to its caller: its outcome and the invocations it
\* made, taken from the context c it ended in.
Result(op, args, c, value) ==
    [op |-> op, args |-> args, err |-> c.err, calls |-> c.calls, value |-> value]

(***************************************************************************)
(* std::mt19937: seeding fixes the state, every draw advances it.          *)
(***************************************************************************)
RngSeed(seed) == seed % RngMod
RngAdvance(rng, n) == (rng + n) % RngMod

(***************************************************************************)
(* Layer (capability contract).                                            *)
(***************************************************************************)
LayerNParams(in, out) == in + out - 2

NewLayer(id, in, out) ==
    [id |-> id, in_size |-> in, out_size |-> out,
     param |-> [j \in 1..LayerNParams(in, out) |-> 0],
     deriv |-> [j \in 1..LayerNParams(in, out) |-> 0],
     output |-> EmptyMatrix, bpdata |-> EmptyMatrix]

\* forward(input): caches the output.
LayerForward(l, input) ==
    [l EXCEPT !.output = Matrix(l.out_size, input.cols,
                                (2 * input.val + SumSeq(l.param) + 1) % ScalarMod)]

\* backprop(prev_layer_data, next_layer_data): caches gradient and derivatives.
LayerBackprop(l, prev, next) ==
    [l EXCEPT !.bpdata = Matrix(l.in_size, next.cols,
                                (3 * next.val + prev.val + SumSeq(l.param) + 2) % ScalarMod),
              !.deriv = [j \in 1..Len(l.param) |->
                            (next.val + 2 * prev.val + j) % ScalarMod]]

\* update(opt): the optimizer's rule applied to the layer's parameters.
LayerUpdate(l, opt) ==
    [l EXCEPT !.param = [j \in 1..Len(l.param) |->
                            (l.param[j] + l.deriv[j] + opt.state + 1) % ScalarMod]]

\* init(mu, sigma, rng): one normal draw per parameter, taken from rng in order.
LayerInit(l, mu, sigma, rng) ==
    [l EXCEPT !.param = [j \in 1..Len(l.param) |->
                            (mu + sigma * (RngAdvance(rng, j - 1) + 1)) % ScalarMod]]

\* set_parameters(values): rejected unless one value per parameter is given.
LayerAccepts(l, values) == Len(values) = Len(l.param)
LayerSetParameters(l, values) == [l EXCEPT !.param = values]

\* The optimizer's state after serving one layer with n parameters.
OptimizerAfterUpdate(opt, n) ==
    IF n = 0 THEN opt ELSE [opt EXCEPT !.state = (opt.state + 1) % ScalarMod]

OptimizerReset(opt) == [opt EXCEPT !.state = 0]

(***************************************************************************)
(* Output head (capability contract).                                      *)
(***************************************************************************)
NewOutput(id) == [id |-> id, loss |-> 0, bpdata |-> EmptyMatrix]

\* check_target_data(target): the target's shape against the declared
\* output size of the last layer.
TargetCompatible(target, last_layer) == target.rows = last_layer.out_size

\* evaluate(prev_layer_data, target): caches loss and gradient.
OutputEvaluate(o, pred, target) ==
    [o EXCEPT !.loss = (pred.val + 2 * target.val + 1) % ScalarMod,
              !.bpdata = Matrix(pred.rows, pred.cols,
                                (pred.val + 3 * target.val + 1) % ScalarMod)]

(***************************************************************************)
(* Callback (capability contract): the fields fit writes.                  *)
(***************************************************************************)
NewCallback(id) ==
    [id |-> id, m_nbatch |-> 0, m_nepoch |-> 0, m_epoch_id |-> 0, m_batch_id |-> 0]

\* What a hook leaves of its callback.  The hooks of Callback do nothing; a
\* class derived from it may write its own members: callback 2 is of a class
\* whose hooks declare the training over (no batch, no epoch left).
CallbackAfterHook(cb) ==
    IF cb.id = 2 THEN [cb EXCEPT !.m_nbatch = 0, !.m_nepoch = 0] ELSE cb

(***************************************************************************)
(* Network: private members.  Each takes and returns a context             *)
(*   [layers, output, callback, rng, opt, calls, err]                      *)
(* where calls is the log of collaborator invocations made so far and err  *)
(* is the exception in flight (NoError when none).                         *)
(***************************************************************************)
At(layers, i) == layers[i + 1]          \* m_layers[i]
Log(c, entry) == [c EXCEPT !.calls = Append(@, entry)]
Throw(c, e) == [c EXCEPT !.err = e]

\* check_unit_sizes(): the loop "for (i = 1; i < nlayer; i++)".
RECURSIVE CheckUnitSizesFrom(_, _)
CheckUnitSizesFrom(layers, i) ==
    IF i >= Len(layers) THEN NoError
    ELSE IF At(layers, i).in_size # At(layers, i - 1).out_size THEN ShapeMismatch
    ELSE CheckUnitSizesFrom(layers, i + 1)

\* Mutant of check_unit_sizes: the early return also covers two layers.
check_unit_sizes_short(layers) ==
    IF Len(layers) <= 2 THEN NoError ELSE CheckUnitSizesFrom(layers, 1)

check_unit_sizes(layers) ==
    IF Len(layers) <= 1 THEN NoError ELSE CheckUnitSizesFrom(layers, 1)

\* Mutant of ForwardFrom: every later layer reads m_layers[0]->output().
RECURSIVE ForwardFromFirst(_, _)
ForwardFromFirst(c, i) ==
    IF i >= Len(c.layers) THEN c
    ELSE LET arg == At(c.layers, 0).output
             c1 == [c EXCEPT !.layers[i + 1] = LayerForward(@, arg)]
         IN ForwardFromFirst(Log(c1, Call("forward", i, arg, NoArg)), i + 1)

\* forward(): the loop "for (i = 1; i < nlayer; i++)".
RECURSIVE ForwardFrom(_, _)
ForwardFrom(c, i) ==
    IF i >= Len(c.layers) THEN c
    ELSE LET arg == At(c.layers, i - 1).output
             c1 == [c EXCEPT !.layers[i + 1] = LayerForward(@, arg)]
         IN ForwardFrom(Log(c1, Call("forward", i, arg, NoArg)), i + 1)

\* Mutant of forward: the row check follows layer 0's forward.
forward_late_check(c, input) ==
    LET nlayer == Len(c.layers) IN
    IF nlayer <= 0 THEN c
    ELSE LET c1 == Log([c EXCEPT !.layers[1] = LayerForward(@, input)],
                       Call("forward", 0, input, NoArg))
         IN IF input.rows # At(c.layers, 0).in_size THEN Throw(c1, ShapeMismatch)
            ELSE ForwardFrom(c1, 1)

\* Mutant of forward: the input's rows are tested against the last layer.
forward_checks_last(c, input) ==
    LET nlayer == Len(c.layers) IN
    IF nlayer <= 0 THEN c
    ELSE IF input.rows # At(c.layers, nlayer - 1).in_size THEN Throw(c, ShapeMismatch)
    ELSE LET c1 == [c EXCEPT !.layers[1] = LayerForward(@, input)]
         IN ForwardFrom(Log(c1, Call("forward", 0, input, NoArg)), 1)

forward(c, input) ==
    LET nlayer == Len(c.layers) IN
    IF nlayer <= 0 THEN c
    ELSE IF input.rows # At(c.layers, 0).in_size THEN Throw(c, ShapeMismatch)
    ELSE LET c1 == [c EXCEPT !.layers[1] = LayerForward(@, input)]
         IN ForwardFrom(Log(c1, Call("forward", 0, input, NoArg)), 1)


\* Mutant of BackpropFrom: layer i reads its own m_layers[i]->backprop_data().
RECURSIVE BackpropFromOwn(_, _)
BackpropFromOwn(c, i) ==
    IF i <= 0 THEN c
    ELSE LET prev == At(c.layers, i - 1).output
             next == At(c.layers, i).bpdata
             c1 == [c EXCEPT !.layers[i + 1] = LayerBackprop(@, prev, next)]
         IN BackpropFromOwn(Log(c1, Call("backprop", i, prev, next)), i - 1)

\* backprop(): the loop "for (i = nlayer - 2; i > 0; i--)".
RECURSIVE BackpropFrom(_, _)
BackpropFrom(c, i) ==
    IF i <= 0 THEN c
    ELSE LET prev == At(c.layers, i - 1).output
             next == At(c.layers, i + 1).bpdata
             c1 == [c EXCEPT !.layers[i + 1] = LayerBackprop(@, prev, next)]
         IN BackpropFrom(Log(c1, Call("backprop", i, prev, next)), i - 1)

\* Mutant of BackpropLayers: a single layer is handed its own cached output.
BackpropLayersCached(c, input) ==
    LET nlayer == Len(c.layers) IN
    IF nlayer = 1
    THEN LET g == c.output.bpdata
             prev == At(c.layers, 0).output
             c1 == [c EXCEPT !.layers[1] = LayerBackprop(@, prev, g)]
         IN Log(c1, Call("backprop", 0, prev, g))
    ELSE LET prevL == At(c.layers, nlayer - 2).output
             g == c.output.bpdata
             c1 == [c EXCEPT !.layers[nlayer] = LayerBackprop(@, prevL, g)]
             c2 == BackpropFrom(Log(c1, Call("backprop", nlayer - 1, prevL, g)),
                                nlayer - 2)
             g1 == At(c2.layers, 1).bpdata
             c3 == [c2 EXCEPT !.layers[1] = LayerBackprop(@, input, g1)]
         IN Log(c3, Call("backprop", 0, input, g1))

\* The part of backprop() after the output head has been evaluated.
BackpropLayers(c, input) ==
    LET nlayer == Len(c.layers) IN
    IF nlayer = 1
    THEN LET g == c.output.bpdata
             c1 == [c EXCEPT !.layers[1] = LayerBackprop(@, input, g)]
         IN Log(c1, Call("backprop", 0, input, g))
    ELSE LET prevL == At(c.layers, nlayer - 2).output
             g == c.output.bpdata
             c1 == [c EXCEPT !.layers[nlayer] = LayerBackprop(@, prevL, g)]
             c2 == BackpropFrom(Log(c1, Call("backprop", nlayer - 1, prevL, g)),
                                nlayer - 2)
             g1 == At(c2.layers, 1).bpdata
             c3 == [c2 EXCEPT !.layers[1] = LayerBackprop(@, input, g1)]
         IN Log(c3, Call("backprop", 0, input, g1))

\* Mutant of backprop: the output head is evaluated before the target is checked.
backprop_evaluate_first(c, input, target) ==
    LET nlayer == Len(c.layers) IN
    IF nlayer <= 0 THEN c
    ELSE IF c.output = NULL THEN Throw(c, NullDeref)
    ELSE LET last_layer == At(c.layers, nlayer - 1)
             pred == last_layer.output
             c1 == Log([c EXCEPT !.output = OutputEvaluate(@, pred, target)],
                       Call("evaluate", -1, pred, target))
             c2 == Log(c1, Call("check_target_data", -1, target, NoArg))
         IN IF ~TargetCompatible(target, last_layer) THEN Throw(c2, TargetMismatch)
            ELSE BackpropLayers(c2, input)

\* Mutant of backprop: the output head is consulted before the test for an
\* empty pipeline.
backprop_output_first(c, input, target) ==
    LET nlayer == Len(c.layers) IN
    IF c.output = NULL THEN Throw(c, NullDeref)
    ELSE IF nlayer <= 0 THEN c
    ELSE LET last_layer == At(c.layers, nlayer - 1)
             c1 == Log(c, Call("check_target_data", -1, target, NoArg))
         IN IF ~TargetCompatible(target, last_layer) THEN Throw(c1, TargetMismatch)
            ELSE LET pred == last_layer.output
                     c2 == [c1 EXCEPT !.output = OutputEvaluate(@, pred, target)]
                 IN BackpropLayers(Log(c2, Call("evaluate", -1, pred, target)), input)

\* Mutant of backprop: a pass is refused unless layer 0 holds the output of a
\* forward of this input.
backprop_after_forward(c, input, target) ==
    LET nlayer == Len(c.layers) IN
    IF nlayer <= 0 THEN c
    ELSE IF c.output = NULL THEN Throw(c, NullDeref)
    ELSE IF At(c.layers, 0).output # LayerForward(At(c.layers, 0), input).output
         THEN Throw(c, ShapeMismatch)
    ELSE LET last_layer == At(c.layers, nlayer - 1)
             c1 == Log(c, Call("check_target_data", -1, target, NoArg))
         IN IF ~TargetCompatible(target, last_layer) THEN Throw(c1, TargetMismatch)
            ELSE LET pred == last_layer.output
                     c2 == [c1 EXCEPT !.output = OutputEvaluate(@, pred, target)]
                 IN BackpropLayers(Log(c2, Call("evaluate", -1, pred, target)), input)

backprop(c, input, target) ==
    LET nlayer == Len(c.layers) IN
    IF nlayer <= 0 THEN c
    ELSE IF c.output = NULL THEN Throw(c, NullDeref)
    ELSE LET last_layer == At(c.layers, nlayer - 1)
             c1 == Log(c, Call("check_target_data", -1, target, NoArg))
         IN IF ~TargetCompatible(target, last_layer) THEN Throw(c1, TargetMismatch)
            ELSE LET pred == last_layer.output
                     c2 == [c1 EXCEPT !.output = OutputEvaluate(@, pred, target)]
                 IN BackpropLayers(Log(c2, Call("evaluate", -1, pred, target)), input)

\* update(): the loop "for (i = 0; i < nlayer; i++)".
\* Mutant of UpdateFrom: the loop stops one layer short.
RECURSIVE UpdateFromShort(_, _)
UpdateFromShort(c, i) ==
    IF i + 1 >= Len(c.layers) THEN c
    ELSE LET c1 == [c EXCEPT !.layers[i + 1] = LayerUpdate(@, c.opt),
                             !.opt = OptimizerAfterUpdate(@, Len(At(c.layers, i).param))]
         IN UpdateFromShort(Log(c1, Call("update", i, c.opt.id, NoArg)), i + 1)

RECURSIVE UpdateFrom(_, _)
UpdateFrom(c, i) ==
    IF i >= Len(c.layers) THEN c
    ELSE LET c1 == [c EXCEPT !.layers[i + 1] = LayerUpdate(@, c.opt),
                             !.opt = OptimizerAfterUpdate(@, Len(At(c.layers, i).param))]
         IN UpdateFrom(Log(c1, Call("update", i, c.opt.id, NoArg)), i + 1)

update(c) ==
    IF Len(c.layers) <= 0 THEN c ELSE UpdateFrom(c, 0)


(***************************************************************************)
(* Network: parameter (de)serialization.                                   *)
(***************************************************************************)
\* get_parameters(): the loop "for (i = 0; i < nlayer; i++) res.push_back(...)".
RECURSIVE GetParametersFrom(_, _, _)
GetParametersFrom(c, res, i) ==
    IF i >= Len(c.layers) THEN [ctx |-> c, value |-> res]
    ELSE GetParametersFrom(Log(c, Call("get_parameters", i, NoArg, NoArg)),
                           Append(res, At(c.layers, i).param), i + 1)

get_parameters(c) == GetParametersFrom(c, <<>>, 0)

\* Mutant of GetDerivativesFrom: each layer is asked for its parameters.
RECURSIVE GetDerivativesFromParameters(_, _, _)
GetDerivativesFromParameters(c, res, i) ==
    IF i >= Len(c.layers) THEN [ctx |-> c, value |-> res]
    ELSE GetDerivativesFromParameters(Log(c, Call("get_derivatives", i, NoArg, NoArg)),
                                      Append(res, At(c.layers, i).param), i + 1)

\* get_derivatives(): the loop "for (i = 0; i < nlayer; i++) res.push_back(...)".
RECURSIVE GetDerivativesFrom(_, _, _)
GetDerivativesFrom(c, res, i) ==
    IF i >= Len(c.layers) THEN [ctx |-> c, value |-> res]
    ELSE GetDerivativesFrom(Log(c, Call("get_derivatives", i, NoArg, NoArg)),
                            Append(res, At(c.layers, i).deriv), i + 1)

get_derivatives(c) == GetDerivativesFrom(c, <<>>, 0)

\* set_parameters(): the loop "for (i = 0; i < nlayer; i++)"; a layer that
\* rejects its values ends it.
\* Mutant of SetParametersFrom: every layer is handed param[0].
RECURSIVE SetParametersFromFirst(_, _, _)
SetParametersFromFirst(c, param, i) ==
    IF i >= Len(c.layers) THEN c
    ELSE LET c1 == Log(c, Call("set_parameters", i, param[1], NoArg))
         IN IF ~LayerAccepts(At(c.layers, i), param[1])
            THEN Throw(c1, InnerLengthMismatch)
            ELSE SetParametersFromFirst(
                    [c1 EXCEPT !.layers[i + 1] = LayerSetParameters(@, param[1])],
                    param, i + 1)

RECURSIVE SetParametersFrom(_, _, _)
SetParametersFrom(c, param, i) ==
    IF i >= Len(c.layers) THEN c
    ELSE LET c1 == Log(c, Call("set_parameters", i, param[i + 1], NoArg))
         IN IF ~LayerAccepts(At(c.layers, i), param[i + 1])
            THEN Throw(c1, InnerLengthMismatch)
            ELSE SetParametersFrom(
                    [c1 EXCEPT !.layers[i + 1] = LayerSetParameters(@, param[i + 1])],
                    param, i + 1)

\* Mutant of set_parameters: all or nothing; the values are handed to the
\* layers only if every layer accepts its own.
set_parameters_atomic(c, param) ==
    IF Len(param) # Len(c.layers) THEN Throw(c, ParameterCountMismatch)
    ELSE IF \E i \in 1..Len(param) : ~LayerAccepts(c.layers[i], param[i])
         THEN Throw(c, InnerLengthMismatch)
    ELSE SetParametersFrom(c, param, 0)

\* Mutant of set_parameters: only a sequence that is too short is refused.
set_parameters_short_only(c, param) ==
    IF Len(param) < Len(c.layers) THEN Throw(c, ParameterCountMismatch)
    ELSE SetParametersFrom(c, param, 0)

set_parameters(c, param) ==
    IF Len(param) # Len(c.layers) THEN Throw(c, ParameterCountMismatch)
    ELSE SetParametersFrom(c, param, 0)

(***************************************************************************)
(* Network: init.                                                          *)
(***************************************************************************)
\* init(): the loop "for (i = 0; i < nlayer; i++)".
RECURSIVE InitFrom(_, _, _, _)
InitFrom(c, mu, sigma, i) ==
    IF i >= Len(c.layers) THEN c
    ELSE LET c1 == [c EXCEPT !.layers[i + 1] = LayerInit(@, mu, sigma, c.rng),
                             !.rng = RngAdvance(@, Len(At(c.layers, i).param))]
         IN InitFrom(Log(c1, Call("init", i, c.rng, NoArg)), mu, sigma, i + 1)

\* Mutant of init: the generator is reseeded before the sizes are checked.
init_seed_first(c, mu, sigma, seed) ==
    LET c1 == IF seed > 0
              THEN Log([c EXCEPT !.rng = RngSeed(seed)], Call("seed", -1, seed, NoArg))
              ELSE c
    IN IF check_unit_sizes(c.layers) # NoError THEN Throw(c1, check_unit_sizes(c.layers))
       ELSE InitFrom(c1, mu, sigma, 0)

\* Mutant of init: the generator is reseeded when seed >= 0.
init_seed_zero(c, mu, sigma, seed) ==
    IF check_unit_sizes(c.layers) # NoError THEN Throw(c, check_unit_sizes(c.layers))
    ELSE LET c1 == IF seed >= 0
                   THEN Log([c EXCEPT !.rng = RngSeed(seed)], Call("seed", -1, seed, NoArg))
                   ELSE c
         IN InitFrom(c1, mu, sigma, 0)

init(c, mu, sigma, seed) ==
    IF check_unit_sizes(c.layers) # NoError THEN Throw(c, check_unit_sizes(c.layers))
    ELSE LET c1 == IF seed > 0
                   THEN Log([c EXCEPT !.rng = RngSeed(seed)], Call("seed", -1, seed, NoArg))
                   ELSE c
         IN InitFrom(c1, mu, sigma, 0)

(***************************************************************************)
(* internal::create_shuffled_batches (contract): a permutation of the      *)
(* sample indices drawn from rng, sliced into groups of batch_size.        *)
(***************************************************************************)
Permutation(n, rng) ==
    LET rot == [j \in 1..n |-> ((j - 1 + rng) % n) + 1]
    IN IF (rng \div n) % 2 = 1 THEN [j \in 1..n |-> rot[n + 1 - j]] ELSE rot

NumBatches(n, batch_size) == (n + batch_size - 1) \div batch_size

BatchOf(m, perm, batch_size, b) ==
    LET lo == b * batch_size + 1
        hi == IF (b + 1) * batch_size < Len(perm) THEN (b + 1) * batch_size ELSE Len(perm)
    IN Matrix(m.rows, [j \in 1..(hi - lo + 1) |-> m.cols[perm[lo + j - 1]]], m.val)

create_shuffled_batches(x, y, batch_size, rng) ==
    LET n == Len(x.cols)
        perm == Permutation(n, rng)
        nbatch == NumBatches(n, batch_size)
    IN [x_batches |-> [b \in 1..nbatch |-> BatchOf(x, perm, batch_size, b - 1)],
        y_batches |-> [b \in 1..nbatch |-> BatchOf(y, perm, batch_size, b - 1)],
        nbatch |-> nbatch,
        rng |-> RngAdvance(rng, 1)]

(***************************************************************************)
(* Network: fit.                                                           *)
(***************************************************************************)
Hook(name, c, bx, by) ==
    [call |-> name, layer |-> -1, a1 |-> bx, a2 |-> by, cb |-> c.callback]

\* m_callback->pre_training_batch(this, x, y) and post_training_batch: the
\* invocation is logged and the hook acts on its callback.
Invoke(c, name, bx, by) ==
    [Log(c, Hook(name, c, bx, by)) EXCEPT !.callback = CallbackAfterHook(@)]

\* Mutant of FitStep: the post hook runs before update.
FitStepHookEarly(c, bx, by, i) ==
    LET c1 == Log([c EXCEPT !.callback.m_batch_id = i], Call("m_batch_id", -1, i, NoArg))
        c2 == Log(c1, Hook("pre_training_batch", c1, bx, by))
        c3 == forward(c2, bx)
        c4 == backprop(c3, bx, by)
        c5 == update(Log(c4, Hook("post_training_batch", c4, bx, by)))
    IN IF c3.err # NoError THEN c3
       ELSE IF c4.err # NoError THEN c4
       ELSE c5

\* The body of the loop over mini-batches, for batch i.
FitStep(c, bx, by, i) ==
    LET c1 == Log([c EXCEPT !.callback.m_batch_id = i], Call("m_batch_id", -1, i, NoArg))
        c2 == Invoke(c1, "pre_training_batch", bx, by)
        c3 == forward(c2, bx)
        c4 == backprop(c3, bx, by)
        c5 == update(c4)
    IN IF c3.err # NoError THEN c3
       ELSE IF c4.err # NoError THEN c4
       ELSE Invoke(c5, "post_training_batch", bx, by)

\* Mutant of FitBatches: every step is given the first batch of targets.
RECURSIVE FitBatchesFirstTarget(_, _, _)
FitBatchesFirstTarget(c, bs, i) ==
    IF i >= bs.nbatch \/ c.err # NoError THEN c
    ELSE FitBatchesFirstTarget(FitStep(c, bs.x_batches[i + 1], bs.y_batches[1], i), bs, i + 1)

\* Mutant of FitBatches: the loop leaves out the last mini-batch.
RECURSIVE FitBatchesShort(_, _, _)
FitBatchesShort(c, bs, i) ==
    IF i + 1 >= bs.nbatch \/ c.err # NoError THEN c
    ELSE FitBatchesShort(FitStep(c, bs.x_batches[i + 1], bs.y_batches[i + 1], i), bs, i + 1)

\* Mutant of FitBatches: a step that raised is followed by the next one.
RECURSIVE FitBatchesContinue(_, _, _)
FitBatchesContinue(c, bs, i) ==
    IF i >= bs.nbatch THEN c
    ELSE FitBatchesContinue(FitStep(c, bs.x_batches[i + 1], bs.y_batches[i + 1], i), bs, i + 1)

\* "for (i = 0; i < nbatch; i++)"
RECURSIVE FitBatches(_, _, _)
FitBatches(c, bs, i) ==
    IF i >= bs.nbatch \/ c.err # NoError THEN c
    ELSE FitBatches(FitStep(c, bs.x_batches[i + 1], bs.y_batches[i + 1], i), bs, i + 1)

\* Mutant of FitEpochs: the mini-batches change order from one epoch to the next.
Reverse(s) == [i \in 1..Len(s) |-> s[Len(s) + 1 - i]]

RECURSIVE FitEpochsReordered(_, _, _, _)
FitEpochsReordered(c, bs, epoch, k) ==
    IF k >= epoch \/ c.err # NoError THEN c
    ELSE LET c1 == Log([c EXCEPT !.callback.m_epoch_id = k],
                       Call("m_epoch_id", -1, k, NoArg))
         IN FitEpochsReordered(FitBatches(c1, bs, 0),
                               [bs EXCEPT !.x_batches = Reverse(@), !.y_batches = Reverse(@)],
                               epoch, k + 1)

\* "for (k = 0; k < epoch; k++)"
RECURSIVE FitEpochs(_, _, _, _)
FitEpochs(c, bs, epoch, k) ==
    IF k >= epoch \/ c.err # NoError THEN c
    ELSE LET c1 == Log([c EXCEPT !.callback.m_epoch_id = k],
                       Call("m_epoch_id", -1, k, NoArg))
         IN FitEpochs(FitBatches(c1, bs, 0), bs, epoch, k + 1)

\* Mutant of FitBody: the stream is reseeded after the mini-batches were drawn.
FitBodyLateSeed(c, x, y, batch_size, epoch, seed) ==
         LET c1 == Log([c EXCEPT !.opt = OptimizerReset(@)],
                       Call("reset", -1, c.opt.id, NoArg))
             bs == create_shuffled_batches(x, y, batch_size, c1.rng)
             c2 == Log([c1 EXCEPT !.rng = bs.rng],
                       Call("create_shuffled_batches", -1, c1.rng, batch_size))
             c3 == IF seed > 0
                   THEN Log([c2 EXCEPT !.rng = RngSeed(seed)], Call("seed", -1, seed, NoArg))
                   ELSE c2
         IN IF c3.callback = NULL THEN [ctx |-> Throw(c3, NullDeref), value |-> NoArg]
            ELSE LET c4 == Log([c3 EXCEPT !.callback.m_nbatch = bs.nbatch],
                               Call("m_nbatch", -1, bs.nbatch, NoArg))
                     c5 == Log([c4 EXCEPT !.callback.m_nepoch = epoch],
                               Call("m_nepoch", -1, epoch, NoArg))
                     c6 == FitEpochs(c5, bs, epoch, 0)
                 IN [ctx |-> c6, value |-> IF c6.err = NoError THEN "true" ELSE NoArg]

\* fit() past the test for an empty pipeline.
FitBody(c, x, y, batch_size, epoch, seed) ==
         LET c1 == Log([c EXCEPT !.opt = OptimizerReset(@)],
                       Call("reset", -1, c.opt.id, NoArg))
             c2 == IF seed > 0
                   THEN Log([c1 EXCEPT !.rng = RngSeed(seed)], Call("seed", -1, seed, NoArg))
                   ELSE c1
             bs == create_shuffled_batches(x, y, batch_size, c2.rng)
             c3 == Log([c2 EXCEPT !.rng = bs.rng],
                       Call("create_shuffled_batches", -1, c2.rng, batch_size))
         IN IF c3.callback = NULL THEN [ctx |-> Throw(c3, NullDeref), value |-> NoArg]
            ELSE LET c4 == Log([c3 EXCEPT !.callback.m_nbatch = bs.nbatch],
                               Call("m_nbatch", -1, bs.nbatch, NoArg))
                     c5 == Log([c4 EXCEPT !.callback.m_nepoch = epoch],
                               Call("m_nepoch", -1, epoch, NoArg))
                     c6 == FitEpochs(c5, bs, epoch, 0)
                 IN [ctx |-> c6, value |-> IF c6.err = NoError THEN "true" ELSE NoArg]

\* Mutant of fit: a call that raised leaves the Network, the optimizer and
\* the randomness source as it found them.
fit_restoring(c, x, y, batch_size, epoch, seed) ==
    IF Len(c.layers) <= 0 THEN [ctx |-> c, value |-> "false"]
    ELSE LET r == FitBody(c, x, y, batch_size, epoch, seed)
         IN IF r.ctx.err \in {ShapeMismatch, TargetMismatch}
            THEN [ctx |-> [c EXCEPT !.err = r.ctx.err, !.calls = r.ctx.calls],
                  value |-> NoArg]
            ELSE r

\* Mutant of fit: the adjacent sizes are validated before training.
fit_validating(c, x, y, batch_size, epoch, seed) ==
    IF Len(c.layers) <= 0 THEN [ctx |-> c, value |-> "false"]
    ELSE IF check_unit_sizes(c.layers) # NoError
         THEN [ctx |-> Throw(c, check_unit_sizes(c.layers)), value |-> NoArg]
    ELSE FitBody(c, x, y, batch_size, epoch, seed)

\* Mutant of fit: no test for an empty pipeline.
fit_unguarded(c, x, y, batch_size, epoch, seed) ==
    FitBody(c, x, y, batch_size, epoch, seed)

fit(c, x, y, batch_size, epoch, seed) ==
    IF Len(c.layers) <= 0 THEN [ctx |-> c, value |-> "false"]
    ELSE FitBody(c, x, y, batch_size, epoch, seed)

(***************************************************************************)
(* State.                                                                  *)
(***************************************************************************)
VARIABLES
    m_layers,        \* std::vector<std::shared_ptr<Layer>>
    m_output,        \* std::shared_ptr<Output>, NULL until setOutput
    m_callback,      \* std::shared_ptr<Callback>, NULL until setCallback
    m_default_rng,   \* the built-in std::mt19937
    user_rng,        \* the caller's std::mt19937
    user_callback,   \* the caller's Callback object
    rng_is_user,     \* whether m_rng refers to the caller's generator
    optimizer,       \* the caller's Optimizer object
    crashed,         \* the process was terminated by a signal
    ret,             \* the last operation: arguments, outcome, call log
    nops             \* operations performed after construction

vars == <<m_layers, m_output, m_callback, m_default_rng, user_rng, user_callback,
          rng_is_user, optimizer, crashed, ret, nops>>

netVars == <<m_layers, m_output, m_callback>>
rngVars == <<m_default_rng, user_rng, rng_is_user>>
callerVars == <<user_callback>>

\* The layer objects a caller hands to addLayer: (in_size, out_size).
LayerKinds == {<<1, 2>>, <<2, 2>>}
Rows == {1, 2}
InputVals == {0, 1}
Inputs == {Matrix(r, <<1>>, v) : r \in Rows, v \in InputVals}

\* What a build makes of a null shared_ptr dereference: the store or the
\* virtual call through address 0 faults, or the library's assertion aborts.
NullDerefOutcomes == {"SIGSEGV", "SIGABRT"}

\* m_rng: the generator the reference was bound to by the constructor.
ActiveRng == IF rng_is_user THEN user_rng ELSE m_default_rng

Ctx == [layers |-> m_layers, output |-> m_output, callback |-> m_callback,
        rng |-> ActiveRng, opt |-> optimizer, calls |-> <<>>, err |-> NoError]

\* Network() seeds the built-in generator with 1 and refers to it;
\* Network(rng) refers to the caller's generator.  Both leave m_output and
\* m_callback NULL.
Init ==
    /\ m_layers = <<>>
    /\ m_output = NULL
    /\ m_callback = NULL
    /\ m_default_rng = RngSeed(1)
    /\ user_rng = RngSeed(2)
    /\ rng_is_user \in BOOLEAN
    /\ user_callback = NewCallback(1)
    /\ optimizer = [id |-> 1, state |-> 1]
    /\ crashed = "no"
    /\ ret = [op |-> "Network", args |-> <<>>, err |-> NoError, calls |-> <<>>,
              value |-> NoArg]
    /\ nops = 0

Alive == crashed = "no"
Building == Alive /\ nops = 0 /\ ret.op = "Network"

\* Commit a context: an in-flight NullDeref ends the process.
\* Mutant of Commit: every draw is taken from the built-in generator.
CommitToDefault(c) ==
    /\ m_layers' = c.layers
    /\ m_output' = c.output
    /\ m_callback' = c.callback
    /\ optimizer' = c.opt
    /\ m_default_rng' = c.rng /\ user_rng' = user_rng
    /\ rng_is_user' = rng_is_user
    /\ user_callback' = user_callback
    /\ IF c.err = NullDeref THEN crashed' \in NullDerefOutcomes ELSE crashed' = crashed

Commit(c) ==
    /\ m_layers' = c.layers
    /\ m_output' = c.output
    /\ m_callback' = c.callback
    /\ optimizer' = c.opt
    /\ IF rng_is_user
       THEN user_rng' = c.rng /\ m_default_rng' = m_default_rng
       ELSE m_default_rng' = c.rng /\ user_rng' = user_rng
    /\ rng_is_user' = rng_is_user
    /\ user_callback' = user_callback
    /\ IF c.err = NullDeref THEN crashed' \in NullDerefOutcomes ELSE crashed' = crashed

(***************************************************************************)
(* Construction.  The behaviours explored build the Network first (layers, *)
(* then at most one setOutput and one setCallback) and operate it after.   *)
(***************************************************************************)
\* addLayer(layer): push_back of a copy of the caller's layer.
\* Mutant of AddLayer: the new layer is put in front of the pipeline.
AddLayerFront ==
    /\ Building
    /\ Len(m_layers) < MaxLayers
    /\ \E k \in LayerKinds :
          m_layers' = <<NewLayer(Len(m_layers) + 1, k[1], k[2])>> \o m_layers
    /\ UNCHANGED <<m_output, m_callback, rngVars, callerVars, optimizer, crashed, ret, nops>>

AddLayer ==
    /\ Building
    /\ Len(m_layers) < MaxLayers
    /\ \E k \in LayerKinds :
          m_layers' = Append(m_layers, NewLayer(Len(m_layers) + 1, k[1], k[2]))
    /\ UNCHANGED <<m_output, m_callback, rngVars, callerVars, optimizer, crashed, ret, nops>>

\* setOutput(output): the Network keeps a copy made by make_shared.
SetOutput ==
    /\ Building
    /\ m_output = NULL
    /\ m_output' = NewOutput(1)
    /\ UNCHANGED <<m_layers, m_callback, rngVars, callerVars, optimizer, crashed, ret, nops>>

\* setOutput(output) on a Network that has an output head: the head is
\* replaced by a copy of the second output object.
SetOutputAgain ==
    /\ Building
    /\ m_output = NewOutput(1)
    /\ m_output' = NewOutput(2)
    /\ UNCHANGED <<m_layers, m_callback, rngVars, callerVars, optimizer, crashed, ret, nops>>

\* setCallback(callback): the Network keeps a copy made by make_shared.
SetCallback ==
    /\ Building
    /\ m_callback = NULL
    /\ m_callback' = user_callback
    /\ UNCHANGED <<m_layers, m_output, rngVars, callerVars, optimizer, crashed, ret, nops>>

\* setCallback(callback) with an object of the derived class whose hooks
\* write its members: the Network keeps a copy of it.
SetCallbackDerived ==
    /\ Building
    /\ m_callback = NULL
    /\ m_callback' = NewCallback(2)
    /\ UNCHANGED <<m_layers, m_output, rngVars, callerVars, optimizer, crashed, ret, nops>>

(***************************************************************************)
(* The private members check_unit_sizes, forward, backprop and update,     *)
(* each exercised as an operation of its own, and predict.                 *)
(***************************************************************************)
CheckUnitSizes ==
    /\ Alive /\ nops < MaxOps
    /\ ret' = [op |-> "check_unit_sizes", args |-> <<>>,
               err |-> check_unit_sizes(m_layers), calls |-> <<>>, value |-> NoArg]
    /\ nops' = nops + 1
    /\ UNCHANGED <<netVars, rngVars, callerVars, optimizer, crashed>>

Forward ==
    /\ Alive /\ nops < MaxOps
    /\ \E input \in Inputs :
          LET c == forward(Ctx, input) IN
          /\ Commit(c)
          /\ ret' = Result("forward", <<input>>, c, NoArg)
    /\ nops' = nops + 1

Backprop ==
    /\ Alive /\ nops < MaxOps
    /\ \E input \in Inputs, target \in Inputs :
          LET c == backprop(Ctx, input, target) IN
          /\ Commit(c)
          /\ ret' = Result("backprop", <<input, target>>, c, NoArg)
    /\ nops' = nops + 1

Update ==
    /\ Alive /\ nops < MaxOps
    /\ LET c == update(Ctx) IN
          /\ Commit(c)
          /\ ret' = Result("update", <<optimizer.id>>, c, NoArg)
    /\ nops' = nops + 1

\* predict(x)
\* Mutant of predict: a training update follows the forward pass.
predict_updating(c, x) ==
    IF Len(c.layers) <= 0 THEN [ctx |-> c, value |-> EmptyMatrix]
    ELSE LET c1 == update(forward(c, x))
         IN [ctx |-> c1,
             value |-> IF c1.err = NoError
                       THEN At(c1.layers, Len(c1.layers) - 1).output ELSE NoArg]

\* Mutant of predict: the output of layer 0 is returned.
predict_first_output(c, x) ==
    IF Len(c.layers) <= 0 THEN [ctx |-> c, value |-> EmptyMatrix]
    ELSE LET c1 == forward(c, x)
         IN [ctx |-> c1,
             value |-> IF c1.err = NoError THEN At(c1.layers, 0).output ELSE NoArg]

predict(c, x) ==
    IF Len(c.layers) <= 0 THEN [ctx |-> c, value |-> EmptyMatrix]
    ELSE LET c1 == forward(c, x)
         IN [ctx |-> c1,
             value |-> IF c1.err = NoError
                       THEN At(c1.layers, Len(c1.layers) - 1).output ELSE NoArg]

Predict ==
    /\ Alive /\ nops < MaxOps
    /\ \E x \in Inputs :
          LET r == predict(Ctx, x) IN
          /\ Commit(r.ctx)
          /\ ret' = Result("predict", <<x>>, r.ctx, r.value)
    /\ nops' = nops + 1

(***************************************************************************)
(* Parameter (de)serialization.  The getters are const: they are not       *)
(* counted as operations and leave everything but their result alone.      *)
(***************************************************************************)
\* The flattened parameters a caller hands to a layer, and the outer
\* sequences built from them.
LayerValues == {<<1>>, <<3>>, <<2, 1>>}
RECURSIVE ParamValues(_)
ParamValues(n) ==
    IF n = 0 THEN {<<>>}
    ELSE ParamValues(n - 1)
         \cup {Append(p, v) : p \in {q \in ParamValues(n - 1) : Len(q) = n - 1},
                              v \in LayerValues}

GetParameters ==
    /\ Alive
    /\ LET r == get_parameters(Ctx) IN
          ret' = Result("get_parameters", <<>>, r.ctx, r.value)
    /\ UNCHANGED <<netVars, rngVars, callerVars, optimizer, crashed, nops>>

GetDerivatives ==
    /\ Alive
    /\ LET r == get_derivatives(Ctx) IN
          ret' = Result("get_derivatives", <<>>, r.ctx, r.value)
    /\ UNCHANGED <<netVars, rngVars, callerVars, optimizer, crashed, nops>>

\* set_parameters(param) with values of the caller's making; the behaviours
\* explored make no counted operation after it.
SetParameters ==
    /\ Alive /\ nops < MaxOps
    /\ \E param \in ParamValues(MaxLayers) :
          LET c == set_parameters(Ctx, param) IN
          /\ Commit(c)
          /\ ret' = Result("set_parameters", <<param>>, c, NoArg)
    /\ nops' = MaxOps

\* set_parameters(get_parameters()): the value just read is written back.
SetParametersBack ==
    /\ Alive /\ nops < MaxOps
    /\ ret.op = "get_parameters"
    /\ LET c == set_parameters(Ctx, ret.value) IN
          /\ Commit(c)
          /\ ret' = Result("set_parameters", <<ret.value>>, c, NoArg)
    /\ nops' = nops + 1

(***************************************************************************)
(* init and fit.                                                           *)
(***************************************************************************)
Seeds == -1..MaxSeed
InitNetwork ==
    /\ Alive /\ nops < MaxOps
    /\ \E seed \in Seeds :
          LET c == init(Ctx, 0, 1, seed) IN
          /\ Commit(c)
          /\ ret' = Result("init", <<0, 1, seed>>, c, NoArg)
    /\ nops' = nops + 1

BatchSizes == {1, 2}
Epochs == 0..MaxEpoch
DataSet(r, n, v) == Matrix(r, [j \in 1..n |-> j], v)

\* The arguments of fit explored: (rows of x, rows of y, samples, batch_size,
\* epoch, seed); to the bounded ones is added the data set of three samples
\* trained in batches of two for five epochs.
FitArgs ==
    (Rows \X Rows \X (1..MaxSamples) \X BatchSizes \X Epochs \X Seeds)
    \cup (Rows \X Rows \X {3} \X {2} \X {5} \X Seeds)

\* A behaviour trains once: fit is the last operation explored.
Fit ==
    /\ Alive /\ nops < MaxOps
    /\ \E a \in FitArgs :
          LET xr == a[1]
              yr == a[2]
              n == a[3]
              batch_size == a[4]
              epoch == a[5]
              seed == a[6]
              x == DataSet(xr, n, 0)
              y == DataSet(yr, n, 1)
              r == fit(Ctx, x, y, batch_size, epoch, seed)
          IN /\ Commit(r.ctx)
             /\ ret' = Result("fit", <<x, y, batch_size, epoch, seed>>, r.ctx, r.value)
    /\ nops' = MaxOps

(***************************************************************************)
(* Specifications: the passes, init, fit, and all operations together.     *)
(***************************************************************************)
PassNext == AddLayer \/ SetOutput \/ CheckUnitSizes \/ Forward \/ Backprop \/ Update \/ Predict
SpecPass == Init /\ [][PassNext]_vars

InitNext == AddLayer \/ InitNetwork
SpecInit == Init /\ [][InitNext]_vars

FitNext == AddLayer \/ SetOutput \/ SetCallback \/ Fit
SpecFit == Init /\ [][FitNext]_vars

\* fit with a callback of either class.
HooksNext == AddLayer \/ SetOutput \/ SetCallback \/ SetCallbackDerived \/ Fit
SpecHooks == Init /\ [][HooksNext]_vars

ParamsNext ==
    AddLayer \/ InitNetwork \/ SetParameters \/ SetParametersBack \/ GetParameters
SpecParams == Init /\ [][ParamsNext]_vars

FrameNext ==
    PassNext \/ GetParameters \/ GetDerivatives \/ InitNetwork \/ SetParameters
SpecFrame == Init /\ [][FrameNext]_vars

\* Construction, with a second setOutput, and the operations on the pipeline.
PipelineNext ==
    \/ AddLayer \/ SetOutput \/ SetOutputAgain
    \/ Forward \/ Backprop \/ Update \/ Predict \/ InitNetwork \/ SetParameters
SpecPipeline == Init /\ [][PipelineNext]_vars

Next ==
    \/ AddLayer \/ SetOutput \/ SetOutputAgain \/ SetCallback \/ SetCallbackDerived
    \/ CheckUnitSizes \/ Forward \/ Backprop \/ Update \/ Predict
    \/ GetParameters \/ GetDerivatives \/ SetParameters \/ SetParametersBack
    \/ InitNetwork \/ Fit
Spec == Init /\ [][Next]_vars


(***************************************************************************)
(* Properties.                                                             *)
(***************************************************************************)
NumLayers == Len(m_layers)
\* Whether some adjacent pair of layers disagrees on its sizes.
SizesMismatch(layers) ==
    \E i \in 1..(Len(layers) - 1) : layers[i].out_size # layers[i + 1].in_size
LayerCalls(calls) == {q \in 1..Len(calls) : calls[q].layer >= 0}

\* C1: forward on a pipeline of L >= 1 layers, given an input whose row count
\* is layer 0's in_size, makes exactly L calls: the forward of layers
\* 0, 1, ..., L-1 in this order.  Layer 0 is handed the input, layer i >= 1
\* the output that layer i-1 cached in this call, which is the output layer
\* i-1 computes from the argument this call handed to it.
C1_ForwardOrder ==
    (ret.op \in {"forward", "predict"} /\ NumLayers >= 1
        /\ ret.args[1].rows = m_layers[1].in_size)
    => /\ ret.err = NoError
       /\ Len(ret.calls) = NumLayers
       /\ \A i \in 1..NumLayers :
             /\ ret.calls[i].call = "forward"
             /\ ret.calls[i].layer = i - 1
             /\ ret.calls[i].a1 = IF i = 1 THEN ret.args[1] ELSE m_layers[i - 1].output
             /\ m_layers[i].output = LayerForward(m_layers[i], ret.calls[i].a1).output

\* A three-layer forward, run after an earlier operation had left outputs
\* cached, in which the last layer's argument is neither the input nor empty.
C1_Witness ==
    /\ ret.op = "forward" /\ ret.err = NoError /\ NumLayers = 3 /\ nops = 2
    /\ Len(ret.calls) = 3
    /\ ret.calls[3].a1 # ret.args[1]
    /\ ret.calls[3].a1 = m_layers[2].output

\* The output head has been set and accepts the target.
BackpropRuns(target) ==
    /\ m_output # NULL
    /\ TargetCompatible(target, m_layers[NumLayers])

\* C2: backprop on a pipeline of L >= 2 layers (output head set, target
\* accepted) calls, after the output head, the backprop of layers
\* L-1, L-2, ..., 0 in this order, once each.  Layer L-1 is handed layer L-2's
\* output and the output head's gradient; an interior layer i layer i-1's
\* output and the gradient layer i+1 produced in this call; layer 0 the
\* original input and layer 1's gradient produced in this call.
C2_BackpropOrder ==
    (ret.op = "backprop" /\ NumLayers >= 2 /\ BackpropRuns(ret.args[2]))
    => /\ ret.err = NoError
       /\ Len(ret.calls) = NumLayers + 2
       /\ LayerCalls(ret.calls) = 3..(NumLayers + 2)
       /\ \A i \in 1..NumLayers :
             LET e == ret.calls[2 + (NumLayers + 1 - i)] IN
             /\ e.call = "backprop"
             /\ e.layer = i - 1
             /\ e.a1 = IF i = 1 THEN ret.args[1] ELSE m_layers[i - 1].output
             /\ e.a2 = IF i = NumLayers THEN m_output.bpdata ELSE m_layers[i + 1].bpdata
             /\ m_layers[i].bpdata = LayerBackprop(m_layers[i], e.a1, e.a2).bpdata

\* A completed three-layer backprop whose interior layer was handed layer 2's
\* gradient, which differs from the output head's.
C2_Witness ==
    /\ ret.op = "backprop" /\ ret.err = NoError /\ NumLayers = 3
    /\ ret.calls[4].layer = 1
    /\ ret.calls[4].a2 = m_layers[3].bpdata
    /\ ret.calls[4].a2 # m_output.bpdata
    /\ ret.calls[5].a1 = ret.args[1]

\* C3: backprop on a single-layer network (output head set, target accepted)
\* makes exactly one layer call: that layer's backprop, handed the original
\* input of backprop and the output head's gradient.
C3_SingleLayerBackprop ==
    (ret.op = "backprop" /\ NumLayers = 1 /\ BackpropRuns(ret.args[2]))
    => /\ ret.err = NoError
       /\ Len(ret.calls) = 3
       /\ LayerCalls(ret.calls) = {3}
       /\ ret.calls[3] = Call("backprop", 0, ret.args[1], m_output.bpdata)
       /\ m_layers[1].bpdata = LayerBackprop(m_layers[1], ret.args[1], m_output.bpdata).bpdata

\* A single-layer backprop whose input differs from the layer's cached output.
C3_Witness ==
    /\ ret.op = "backprop" /\ ret.err = NoError /\ NumLayers = 1
    /\ ret.calls[3].a1 = ret.args[1]
    /\ m_layers[1].output # EmptyMatrix
    /\ m_layers[1].output # ret.args[1]

\* A step that performs the operation named op.
Performs(op) == ret'.op = op /\ nops' # nops

\* C4 (order): in backprop on a non-empty pipeline with an output head, the
\* first call is check_target_data(target); when the target is accepted the
\* second is evaluate(last layer's cached output, target) and every layer call
\* comes after both; when it is rejected nothing follows the check and the
\* caller gets TargetMismatch.
C4_CheckThenEvaluate ==
    (ret.op = "backprop" /\ NumLayers >= 1 /\ m_output # NULL)
    => /\ Len(ret.calls) >= 1
       /\ ret.calls[1] = Call("check_target_data", -1, ret.args[2], NoArg)
       /\ IF TargetCompatible(ret.args[2], m_layers[NumLayers])
          THEN /\ ret.err = NoError
               /\ ret.calls[2] = Call("evaluate", -1, m_layers[NumLayers].output, ret.args[2])
               /\ LayerCalls(ret.calls) = 3..Len(ret.calls)
               /\ \A q \in 3..Len(ret.calls) : ret.calls[q].call = "backprop"
          ELSE /\ ret.err = TargetMismatch
               /\ Len(ret.calls) = 1

\* C4 (failure): a backprop that ends in TargetMismatch leaves every layer
\* (gradients included) and the output head (loss and gradient) unchanged.
C4_MismatchKeepsState ==
    (Performs("backprop") /\ ret'.err = TargetMismatch)
    => /\ m_layers' = m_layers
       /\ m_output' = m_output
       /\ \A q \in 1..Len(ret'.calls) : ret'.calls[q].call \notin {"evaluate", "backprop"}

\* C4: check_target_data, then evaluate, then the layers; TargetMismatch
\* reaches the caller with evaluate and every layer's backprop not invoked.
C4_TargetCheckFirst == [](C4_CheckThenEvaluate) /\ [][C4_MismatchKeepsState]_vars

\* A rejected target on a pipeline whose last layer has a cached output and
\* whose output head has been evaluated before.
C4_Witness ==
    /\ ret.op = "backprop" /\ ret.err = TargetMismatch /\ NumLayers >= 2
    /\ m_layers[NumLayers].output # EmptyMatrix
    /\ Len(ret.calls) = 1

\* C5: forward (also as run by predict) on a non-empty pipeline, given an input
\* whose row count differs from layer 0's in_size, fails with ShapeMismatch,
\* invokes no layer and leaves every layer, cached outputs included, unchanged.
C5_ShapeMismatchStep ==
    (/\ Performs("forward") \/ Performs("predict")
     /\ NumLayers >= 1
     /\ ret'.args[1].rows # m_layers[1].in_size)
    => /\ ret'.err = ShapeMismatch
       /\ ret'.calls = <<>>
       /\ m_layers' = m_layers

C5_ForwardShapeMismatch == [][C5_ShapeMismatchStep]_vars

\* A forward rejected on a pipeline that holds outputs cached by an earlier one.
C5_Witness ==
    /\ ret.op = "forward" /\ ret.err = ShapeMismatch /\ NumLayers >= 2
    /\ \A i \in 1..NumLayers : m_layers[i].output # EmptyMatrix

\* C6 (outcome): check_unit_sizes fails, with ShapeMismatch, exactly when some
\* adjacent pair of layers has out_size # in_size; with zero or one layer it
\* succeeds.
C6_Outcome ==
    ret.op = "check_unit_sizes"
    => /\ ret.err \in {NoError, ShapeMismatch}
       /\ (ret.err = ShapeMismatch) <=> SizesMismatch(m_layers)
       /\ NumLayers <= 1 => ret.err = NoError

\* C6 (frame): check_unit_sizes changes nothing of the Network or its layers.
C6_Frame ==
    Performs("check_unit_sizes")
    => UNCHANGED <<m_layers, m_output, m_callback, rngVars, optimizer, crashed>>

\* C6: check_unit_sizes fails iff an adjacent pair mismatches, and is read-only.
C6_CheckUnitSizes == [](C6_Outcome) /\ [][C6_Frame]_vars

\* A failure found at the second pair of a three-layer pipeline whose first
\* pair agrees.
C6_Witness ==
    /\ ret.op = "check_unit_sizes" /\ ret.err = ShapeMismatch /\ NumLayers = 3
    /\ m_layers[1].out_size = m_layers[2].in_size
    /\ m_layers[2].out_size # m_layers[3].in_size

\* The generator m_rng does not refer to.
OtherRng == IF rng_is_user THEN m_default_rng ELSE user_rng

\* C7: init on a pipeline with a mismatching adjacent pair fails with
\* ShapeMismatch before anything else: no layer's init is invoked, no
\* parameter changes, and no generator is reseeded or advanced, whatever the
\* seed.
C7_InitMismatchStep ==
    (Performs("init") /\ SizesMismatch(m_layers))
    => /\ ret'.err = ShapeMismatch
       /\ ret'.calls = <<>>
       /\ m_layers' = m_layers
       /\ UNCHANGED rngVars

C7_InitValidatesFirst == [][C7_InitMismatchStep]_vars

\* A rejected init with a positive seed that would have moved the generator.
C7_Witness ==
    /\ ret.op = "init" /\ ret.err = ShapeMismatch
    /\ ret.args[3] > 0
    /\ ActiveRng # RngSeed(ret.args[3])

\* The number of parameters of the first n layers.
RECURSIVE ParamsBefore(_, _)
ParamsBefore(layers, n) ==
    IF n = 0 THEN 0 ELSE ParamsBefore(layers, n - 1) + Len(layers[n].param)

\* C8: init on a shape-consistent pipeline calls each layer's init once, in
\* pipeline order, on the one generator m_rng refers to: layer i draws from the
\* stream position left by layers 0..i-1.  The stream starts at the seeded
\* state iff seed > 0 and at the current state otherwise; the other generator
\* is not touched.
C8_InitStep ==
    (Performs("init") /\ ~SizesMismatch(m_layers))
    => LET seed == ret'.args[3]
           start == IF seed > 0 THEN RngSeed(seed) ELSE ActiveRng
           reseed == IF seed > 0 THEN <<Call("seed", -1, seed, NoArg)>> ELSE <<>>
           Pos(i) == RngAdvance(start, ParamsBefore(m_layers, i - 1))
       IN /\ ret'.err = NoError
          /\ ret'.calls = reseed \o [i \in 1..NumLayers |-> Call("init", i - 1, Pos(i), NoArg)]
          /\ \A i \in 1..NumLayers : m_layers'[i] = LayerInit(m_layers[i], 0, 1, Pos(i))
          /\ ActiveRng' = Pos(NumLayers + 1)
          /\ OtherRng' = OtherRng

C8_InitOrder == [][C8_InitStep]_vars

\* A second, unseeded init (seed 0) of three layers: it starts where the first
\* init left the generator, and the layers draw from three different positions.
C8_Witness ==
    /\ ret.op = "init" /\ ret.err = NoError /\ NumLayers = 3 /\ nops = 2
    /\ ret.args[3] = 0
    /\ Len(ret.calls) = 3
    /\ ret.calls[1].a1 # (IF rng_is_user THEN RngSeed(2) ELSE RngSeed(1))
    /\ ret.calls[2].a1 # ret.calls[1].a1
    /\ ret.calls[3].a1 # ret.calls[2].a1

\* C9: fit on a network without layers returns false, raises nothing, invokes
\* no Callback hook and writes no Callback field (the Network's callback and
\* the caller's are unchanged, and a NULL m_callback is not dereferenced).
C9_EmptyFitStep ==
    (Performs("fit") /\ NumLayers = 0)
    => /\ ret'.value = "false"
       /\ ret'.err = NoError
       /\ ret'.calls = <<>>
       /\ m_callback' = m_callback
       /\ user_callback' = user_callback
       /\ crashed' = "no"

C9_EmptyFitFails == [][C9_EmptyFitStep]_vars

\* fit with a positive epoch count and seed on an empty network that has a
\* callback installed.
C9_Witness ==
    /\ ret.op = "fit" /\ NumLayers = 0 /\ ret.value = "false"
    /\ m_callback # NULL
    /\ ret.args[4] > 0 /\ ret.args[5] > 0

\* The positions of the pre_training_batch calls of a log.
PreHooks(calls) == {q \in 1..Len(calls) : calls[q].call = "pre_training_batch"}

\* The m_epoch_id most recently written before position q.
RECURSIVE LastEpochWritten(_, _)
LastEpochWritten(calls, q) ==
    IF q = 0 THEN -1
    ELSE IF calls[q].call = "m_epoch_id" THEN calls[q].a1
    ELSE LastEpochWritten(calls, q - 1)

\* Whether entry e is what a mini-batch step on (bx, by) does d calls after its
\* pre_training_batch hook, in a pipeline of n layers.
StepEntry(e, d, n, bx, by) ==
    IF d <= n THEN
        /\ e.call = "forward" /\ e.layer = d - 1
        /\ d = 1 => e.a1 = bx
    ELSE IF d = n + 1 THEN e = Call("check_target_data", -1, by, NoArg)
    ELSE IF d = n + 2 THEN e.call = "evaluate" /\ e.a2 = by
    ELSE IF d <= 2 * n + 2 THEN
        /\ e.call = "backprop" /\ e.layer = 2 * n + 2 - d
        /\ d = 2 * n + 2 => e.a1 = bx
    ELSE IF d <= 3 * n + 2 THEN
        e = Call("update", d - (2 * n + 3), optimizer.id, NoArg)
    ELSE /\ e.call = "post_training_batch"
         /\ e.a1 = bx /\ e.a2 = by

FitX == ret.args[1]
FitY == ret.args[2]
FitBatchSize == ret.args[3]
FitEpoch == ret.args[4]
FitSeed == ret.args[5]
FitSamples == Len(FitX.cols)

\* ceil(n / b), by its defining inequalities.
CeilDiv(n, b) == CHOOSE k \in 0..n : k * b >= n /\ (k - 1) * b < n

\* The entries of a log that invoke the given hook, in order.
HookSeq(calls, name) == SelectSeq(calls, LAMBDA e : e.call = name)
CallsNamed(calls, name) == {q \in 1..Len(calls) : calls[q].call = name}
Hooks(calls) ==
    {q \in 1..Len(calls) : calls[q].call \in {"pre_training_batch", "post_training_batch"}}

\* A fit call on a non-empty pipeline whose data fit the pipeline and whose
\* output head is set: nothing in the arguments makes a step raise.
FitArgsFit ==
    /\ ret.op = "fit" /\ NumLayers >= 1
    /\ m_output # NULL
    /\ FitX.rows = m_layers[1].in_size
    /\ TargetCompatible(FitY, m_layers[NumLayers])

\* What C11 says of the log of a fit call of E epochs over nb batches.
HooksObserveAllPairs(calls, E, nb) ==
    /\ \A name \in {"m_nbatch", "m_nepoch"} :
          /\ Cardinality(CallsNamed(calls, name)) = 1
          /\ \A q \in CallsNamed(calls, name), h \in Hooks(calls) : q < h
    /\ \A q \in CallsNamed(calls, "m_nbatch") : calls[q].a1 = nb
    /\ \A q \in CallsNamed(calls, "m_nepoch") : calls[q].a1 = E
    /\ \A h \in Hooks(calls) : calls[h].cb.m_nbatch = nb /\ calls[h].cb.m_nepoch = E
    /\ \A name \in {"pre_training_batch", "post_training_batch"} :
          LET hs == HookSeq(calls, name)
          IN /\ Len(hs) = E * nb
             /\ \A i \in 1..Len(hs) :
                   /\ hs[i].cb.m_epoch_id = (i - 1) \div nb
                   /\ hs[i].cb.m_batch_id = (i - 1) % nb

\* C11: during a fit of E epochs over nbatch batches on a non-empty pipeline,
\* the Callback's nbatch and nepoch are written once, before the first hook,
\* and every hook sees them as nbatch and E; the (epoch_id, batch_id) pairs the
\* pre_training_batch hooks see are all of 0..E-1 x 0..nbatch-1 in
\* lexicographic order, each once, and so are those the post_training_batch
\* hooks see.
C11_HookObservations ==
    FitArgsFit => HooksObserveAllPairs(ret.calls, FitEpoch, CeilDiv(FitSamples, FitBatchSize))

\* C11, for the networks that were given a callback with setCallback: there
\* the hooks observe what C11 says.
C11_WithCallback ==
    (FitArgsFit /\ m_callback # NULL) => C11_HookObservations

\* C11: three samples in batches of two for five epochs on a network with a
\* callback: nbatch = 2, nepoch = 5, ten calls of each hook.
C11_Example ==
    /\ FitArgsFit /\ m_callback # NULL
    /\ FitSamples = 3 /\ FitBatchSize = 2 /\ FitEpoch = 5
    /\ Len(HookSeq(ret.calls, "post_training_batch")) = 10
    /\ m_callback.m_nbatch = 2 /\ m_callback.m_nepoch = 5
    /\ m_callback.m_epoch_id = 4 /\ m_callback.m_batch_id = 1

\* C11: a fit call on a network that was never given a callback; the process
\* dies writing nbatch through the null m_callback and no hook is invoked.
C11_NoCallback ==
    /\ FitArgsFit /\ m_callback = NULL
    /\ FitEpoch >= 1
    /\ crashed # "no" /\ ret.err = NullDeref
    /\ Hooks(ret.calls) = {}

(***************************************************************************)
(* fit: the mini-batches.                                                  *)
(***************************************************************************)
\* The pre_training_batch hooks of epoch k, in order.
EpochHooks(calls, k) ==
    SelectSeq(calls, LAMBDA e : e.call = "pre_training_batch" /\ e.cb.m_epoch_id = k)

\* The samples of the batches given to a sequence of hooks, concatenated.
RECURSIVE SamplesOf(_)
SamplesOf(hs) == IF hs = <<>> THEN <<>> ELSE hs[1].a1.cols \o SamplesOf(Tail(hs))

\* C12: for N >= 1 samples and batch_size B >= 1, the batches that the steps of
\* one epoch of fit are given are ceil(N/B) in number, all of B samples except
\* possibly the last, every sample is in exactly one of them, and column j of
\* batch_x and column j of batch_y of a step are the same sample (of x and of y).
\* Samples are identified 1..N.
C12_BatchPartition ==
    (FitArgsFit /\ ret.value = "true")
    => \A k \in 0..(FitEpoch - 1) :
          LET hs == EpochHooks(ret.calls, k)
              all == SamplesOf(hs)
          IN /\ Len(hs) >= 1
             /\ Len(hs) * FitBatchSize >= FitSamples
             /\ (Len(hs) - 1) * FitBatchSize < FitSamples
             /\ \A i \in 1..Len(hs) :
                   /\ i < Len(hs) => Len(hs[i].a1.cols) = FitBatchSize
                   /\ Len(hs[i].a1.cols) \in 1..FitBatchSize
                   /\ hs[i].a1 = Matrix(FitX.rows, hs[i].a1.cols, FitX.val)
                   /\ hs[i].a2 = Matrix(FitY.rows, hs[i].a1.cols, FitY.val)
             /\ Len(all) = FitSamples
             /\ \A s \in 1..FitSamples : Cardinality({j \in 1..Len(all) : all[j] = s}) = 1

\* A completed fit of two epochs on three samples in batches of two: a full
\* batch and a last batch of one sample, not in the order of the data set.
C12_Witness ==
    /\ FitArgsFit /\ ret.value = "true"
    /\ FitSamples = 3 /\ FitBatchSize = 2 /\ FitEpoch = 2
    /\ LET hs == EpochHooks(ret.calls, 1)
       IN /\ Len(hs) = 2
          /\ Len(hs[2].a1.cols) = 1
          /\ SamplesOf(hs) # <<1, 2, 3>>

(***************************************************************************)
(* fit: the randomness source.                                             *)
(***************************************************************************)
\* The states the randomness source can be in.
RngStates == 0..(RngMod - 1)

\* A state another run of the same call could start from: the present one
\* after one more draw.
OtherStart == RngAdvance(ActiveRng, 1)

\* The fit call (x, y, batch_size, epoch, seed) = args made on this network
\* with the randomness source in state r.
FitFrom(r, args) ==
    fit([Ctx EXCEPT !.rng = r], args[1], args[2], args[3], args[4], args[5])

\* C13: a fit call with seed > 0 draws its mini-batches from the source as
\* seeded, whatever state the source was in, and does what a second run of the
\* same call on the same network does from another state: the same invocations of layers,
\* output head and hooks on the same batches (so the same batch membership),
\* the same result, the same layers and, on a non-empty pipeline, the same
\* state of the source afterwards.
C13_SeededFitStep ==
    (Performs("fit") /\ ret'.args[5] > 0)
    => /\ \A q \in CallsNamed(ret'.calls, "create_shuffled_batches") :
             ret'.calls[q].a1 = RngSeed(ret'.args[5])
       /\ LET other == FitFrom(OtherStart, ret'.args)
          IN /\ other.ctx.calls = ret'.calls
             /\ other.ctx.err = ret'.err
             /\ other.value = ret'.value
             /\ other.ctx.layers = m_layers'
             /\ NumLayers >= 1 => other.ctx.rng = ActiveRng'

C13_SeededFitReproducible == [][C13_SeededFitStep]_vars

\* A completed seeded fit over two batches whose order is not that of the
\* data set, and which the same call without the seed would have cut
\* differently.
C13_Witness ==
    /\ FitArgsFit /\ ret.value = "true" /\ FitSeed > 0
    /\ FitSamples = 3 /\ FitBatchSize = 2 /\ FitEpoch >= 1
    /\ SamplesOf(EpochHooks(ret.calls, 0)) # <<1, 2, 3>>
    /\ \E r \in RngStates :
          create_shuffled_batches(FitX, FitY, FitBatchSize, r).x_batches
          # create_shuffled_batches(FitX, FitY, FitBatchSize, RngSeed(FitSeed)).x_batches

\* The batches (batch_x, batch_y) given to the steps of epoch k, in order.
EpochBatches(calls, k) ==
    LET hs == EpochHooks(calls, k) IN [i \in 1..Len(hs) |-> <<hs[i].a1, hs[i].a2>>]

\* C14, as claimed: in a fit call with seed <= 0 that runs E >= 2 epochs, the
\* mini-batches are created anew at the start of every epoch, so the
\* randomness source is advanced E times by shuffling.
C14_FreshEachEpochStep ==
    (Performs("fit") /\ ret'.value = "true" /\ ret'.args[5] <= 0 /\ ret'.args[4] >= 2)
    => /\ Cardinality(CallsNamed(ret'.calls, "create_shuffled_batches")) = ret'.args[4]
       /\ \A q \in CallsNamed(ret'.calls, "m_epoch_id") :
             q < Len(ret'.calls) /\ ret'.calls[q + 1].call = "create_shuffled_batches"
       /\ ActiveRng' = RngAdvance(ActiveRng, ret'.args[4])

C14_FreshEachEpoch == [][C14_FreshEachEpochStep]_vars

\* C14, amended: in a fit call with seed <= 0 on a non-empty pipeline the
\* mini-batches are created once, before the first epoch, from the randomness
\* source as the call found it; the source is advanced once by shuffling,
\* whatever the number of epochs, and every epoch trains on the same batches in
\* the same order.
C14_OnceStep ==
    (Performs("fit") /\ NumLayers >= 1 /\ ret'.args[5] <= 0)
    => LET calls == ret'.calls
           made == CallsNamed(calls, "create_shuffled_batches")
       IN /\ Cardinality(made) = 1
          /\ \A q \in made :
                /\ calls[q].a1 = ActiveRng
                /\ \A e \in CallsNamed(calls, "m_epoch_id") : q < e
          /\ ActiveRng' = RngAdvance(ActiveRng, 1)
          /\ ret'.value = "true"
             => \A k \in 0..(ret'.args[4] - 1) :
                   EpochBatches(calls, k) = EpochBatches(calls, 0)

C14_BatchesCreatedOncePerFit == [][C14_OnceStep]_vars

\* A completed unseeded fit of two epochs over two shuffled batches: one
\* creation, and the second epoch trains on the batches of the first.
C14_Witness ==
    /\ FitArgsFit /\ ret.value = "true" /\ FitSeed <= 0
    /\ FitSamples = 3 /\ FitBatchSize = 2 /\ FitEpoch = 2
    /\ Cardinality(CallsNamed(ret.calls, "create_shuffled_batches")) = 1
    /\ SamplesOf(EpochHooks(ret.calls, 0)) # <<1, 2, 3>>
    /\ EpochBatches(ret.calls, 1) = EpochBatches(ret.calls, 0)
    /\ Len(EpochBatches(ret.calls, 1)) = 2

(***************************************************************************)
(* fit: the preamble.                                                      *)
(***************************************************************************)
\* What fit (x, y, batch_size, epoch, seed) = args does before its first
\* epoch, on an optimizer opt and a randomness source in state rng.
Preamble(args, opt, rng) ==
    LET seed == args[5]
        from == IF seed > 0 THEN RngSeed(seed) ELSE rng
    IN <<Call("reset", -1, opt.id, NoArg)>>
       \o (IF seed > 0 THEN <<Call("seed", -1, seed, NoArg)>> ELSE <<>>)
       \o <<Call("create_shuffled_batches", -1, from, args[3]),
            Call("m_nbatch", -1, CeilDiv(Len(args[1].cols), args[3]), NoArg),
            Call("m_nepoch", -1, args[4], NoArg)>>

PreambleCalls == {"reset", "seed", "create_shuffled_batches", "m_nbatch", "m_nepoch"}

\* C15: fit on a non-empty pipeline starts with: optimizer reset; reseed of the
\* randomness source iff seed > 0; creation of the batches, drawing from the
\* source as seeded or else as the call found it; nbatch and nepoch written to
\* the Callback; in this order, and none of these is done again later in the
\* call (so the optimizer is reset before the first update and never between
\* batches or epochs).
C15_PreambleStep ==
    (Performs("fit") /\ NumLayers >= 1)
    => LET calls == ret'.calls
           pre == Preamble(ret'.args, optimizer, ActiveRng)
       IN /\ Len(calls) >= Len(pre)
          /\ SubSeq(calls, 1, Len(pre)) = pre
          /\ \A q \in (Len(pre) + 1)..Len(calls) : calls[q].call \notin PreambleCalls

C15_PreambleOrder == [][C15_PreambleStep]_vars

\* C15, for the networks that were given a callback with setCallback.
C15_WithCallbackStep == m_callback # NULL => C15_PreambleStep

C15_PreambleOrderWithCallback == [][C15_WithCallbackStep]_vars

\* C15: a fit call on a network that was never given a callback: the optimizer
\* is reset, the source reseeded, the batches created, and the process dies
\* writing nbatch through the null m_callback.
C15_NoCallback ==
    /\ ret.op = "fit" /\ NumLayers >= 1 /\ m_callback = NULL
    /\ FitSeed > 0
    /\ crashed # "no" /\ ret.err = NullDeref
    /\ Len(ret.calls) = 3
    /\ ret.calls[3].call = "create_shuffled_batches"

\* C15: a completed seeded fit of two epochs over two batches on a network
\* with a callback: one reset, before the four updates of each layer.
C15_Completed ==
    /\ FitArgsFit /\ ret.value = "true" /\ FitSeed > 0
    /\ FitEpoch = 2 /\ Len(HookSeq(ret.calls, "post_training_batch")) = 4
    /\ Cardinality(CallsNamed(ret.calls, "reset")) = 1

(***************************************************************************)
(* fit: update within a step.                                              *)
(***************************************************************************)
\* The positions of the step that the pre_training_batch hook at p opens: up
\* to the next such hook, the next epoch's first write, or the end of the log.
StepOf(calls, p) ==
    {q \in p..Len(calls) :
        \A r \in (p + 1)..q : calls[r].call \notin {"pre_training_batch", "m_batch_id", "m_epoch_id"}}

Named(calls, positions, name) == {q \in positions : calls[q].call = name}

\* C16: in every step of fit, update invokes the update of each layer once, in
\* the order 0..L-1, with the caller's optimizer, after the backprop of every
\* layer on that batch; all L updates are done before the post_training_batch
\* hook of the step, and so before the forward of the next batch.  Only a step
\* that an error cut short has no updates.
C16_UpdateInStep ==
    (ret.op = "fit" /\ NumLayers >= 1)
    => LET calls == ret.calls
           L == NumLayers
       IN /\ \A p \in PreHooks(calls) :
                LET step == StepOf(calls, p)
                    ups == Named(calls, step, "update")
                    bps == Named(calls, step, "backprop")
                    fws == Named(calls, step, "forward")
                    posts == Named(calls, step, "post_training_batch")
                IN /\ ups = {} => ret.err # NoError /\ posts = {}
                   /\ ups # {}
                      => /\ Cardinality(ups) = L
                         /\ \A u \in ups :
                               /\ calls[u] = Call("update", Cardinality({v \in ups : v < u}),
                                                  optimizer.id, NoArg)
                               /\ \A b \in bps : b < u
                               /\ \A f \in fws : f < u
                               /\ \A h \in posts : u < h
                         /\ {calls[b].layer : b \in bps} = 0..(L - 1)
                         /\ Cardinality(bps) = L
                         /\ Cardinality(posts) = 1
          /\ \A u \in CallsNamed(calls, "update") :
                \E p \in PreHooks(calls) : u \in StepOf(calls, p)

\* A completed fit of two epochs over two batches on three layers: each of the
\* four steps updates layers 0, 1, 2.
C16_Witness ==
    /\ ret.op = "fit" /\ ret.value = "true" /\ NumLayers = 3
    /\ Cardinality(PreHooks(ret.calls)) = 4
    /\ Cardinality(CallsNamed(ret.calls, "update")) = 12
    /\ \E u \in CallsNamed(ret.calls, "update") :
          /\ ret.calls[u].layer = 2
          /\ u + 2 <= Len(ret.calls) /\ ret.calls[u + 1].call = "post_training_batch"

(***************************************************************************)
(* Parameters: who changes them.                                           *)
(***************************************************************************)
ReadOnlyOps ==
    {"forward", "backprop", "predict", "get_parameters", "get_derivatives", "check_unit_sizes"}

\* Every layer of the pipeline has after the step the parameters it had before.
ParametersKept == \A i \in 1..Len(m_layers) : m_layers'[i].param = m_layers[i].param

\* C17: forward, backprop, predict, get_parameters, get_derivatives and
\* check_unit_sizes leave every layer's parameters as they were; a step that
\* changes a layer's parameters is init, set_parameters or update (or a fit
\* whose steps called update).
C17_FrameStep ==
    /\ ret'.op \in ReadOnlyOps => ParametersKept
    /\ ~ParametersKept
       => /\ nops' # nops
          /\ \/ ret'.op \in {"init", "set_parameters", "update"}
             \/ ret'.op = "fit" /\ CallsNamed(ret'.calls, "update") # {}

C17_ParametersFrame == [][C17_FrameStep]_vars

\* A backprop that left gradients on a pipeline whose parameters an update had
\* made non-zero, and left those parameters alone.
C17_Witness ==
    /\ ret.op = "backprop" /\ ret.err = NoError /\ NumLayers >= 2 /\ nops = 2
    /\ \A i \in 1..NumLayers :
          /\ \E j \in 1..Len(m_layers[i].param) : m_layers[i].param[j] # 0
          /\ \E j \in 1..Len(m_layers[i].deriv) : m_layers[i].deriv[j] # 0

(***************************************************************************)
(* set_parameters, get_parameters, get_derivatives.                        *)
(***************************************************************************)
ParametersOf(layers) == [i \in 1..Len(layers) |-> layers[i].param]
DerivativesOf(layers) == [i \in 1..Len(layers) |-> layers[i].deriv]

\* C18: set_parameters fails with ParameterCountMismatch whenever (and only
\* when) the outer sequence has not one element per layer, a non-empty
\* sequence on an empty network included; it then invokes no layer's
\* set_parameters and leaves every layer as it was.
C18_CountMismatchStep ==
    Performs("set_parameters")
    => LET param == ret'.args[1]
       IN /\ (ret'.err = ParameterCountMismatch) <=> (Len(param) # NumLayers)
          /\ Len(param) # NumLayers
             => /\ ret'.calls = <<>>
                /\ m_layers' = m_layers

C18_SetParametersCountMismatch == [][C18_CountMismatchStep]_vars

\* A sequence longer than the pipeline refused on a network whose parameters
\* init had made non-zero.
C18_Witness ==
    /\ ret.op = "set_parameters" /\ ret.err = ParameterCountMismatch
    /\ NumLayers >= 1 /\ Len(ret.args[1]) > NumLayers
    /\ \A i \in 1..NumLayers : LayerAccepts(m_layers[i], ret.args[1][i])
    /\ \E i \in 1..NumLayers : \E j \in 1..Len(m_layers[i].param) : m_layers[i].param[j] # 0

\* C18: a non-empty sequence refused on an empty network.
C18_WitnessEmpty ==
    /\ ret.op = "set_parameters" /\ ret.err = ParameterCountMismatch
    /\ NumLayers = 0 /\ Len(ret.args[1]) >= 1

\* Values with one element per layer, each of the length its layer accepts.
Accepted(values, layers) ==
    /\ Len(values) = Len(layers)
    /\ \A i \in 1..Len(layers) : LayerAccepts(layers[i], values[i])

\* C19: round trip.  A set_parameters(values) with values that have one element
\* per layer, each of a length its layer accepts, succeeds, and a
\* get_parameters() that follows it returns values, element i being layer i's
\* parameters; a set_parameters of what get_parameters() just returned
\* succeeds and leaves every layer's parameters (and the layers) as they were.
C19_RoundTripStep ==
    /\ (ret.op = "set_parameters" /\ Accepted(ret.args[1], m_layers))
       => /\ ret.err = NoError
          /\ ret'.op = "get_parameters"
             => /\ ret'.value = ret.args[1]
                /\ \A i \in 1..NumLayers : ret'.value[i] = m_layers[i].param
    /\ (ret.op = "get_parameters" /\ Performs("set_parameters") /\ ret'.args[1] = ret.value)
       => /\ ret'.err = NoError
          /\ ParametersOf(m_layers') = ParametersOf(m_layers)
          /\ m_layers' = m_layers

C19_RoundTrip == [][C19_RoundTripStep]_vars

\* get_parameters() after a set_parameters of distinct accepted values on
\* three layers returned them.
C19_Witness ==
    /\ ret.op = "get_parameters" /\ NumLayers = 3
    /\ ret.value \in ParamValues(MaxLayers)
    /\ ret.value[1] # ret.value[2] /\ Len(ret.value[1]) = Len(ret.value[2])
    /\ ret.value[2] # ret.value[3]

\* The parameters that init drew, read with get_parameters() and written back.
C19_WitnessBack ==
    /\ ret.op = "set_parameters" /\ ret.err = NoError /\ NumLayers >= 2 /\ nops = 2
    /\ ret.args[1] = ParametersOf(m_layers)
    /\ ret.args[1] \notin ParamValues(MaxLayers)
    /\ \A i \in 1..NumLayers : \E j \in 1..Len(m_layers[i].param) : m_layers[i].param[j] # 0

\* The log of a getter: the named member of layers 0..n-1, in order.
GetterLog(name, n) == [i \in 1..n |-> Call(name, i - 1, NoArg, NoArg)]

\* C20: get_parameters() and get_derivatives() return a sequence of exactly
\* num_layers() elements, element i being layer i's flattened parameters
\* (resp. gradient), asked of the layers in pipeline order; neither changes
\* the network, the randomness source or the optimizer; on an empty network
\* both return the empty sequence.
C20_GetterStep ==
    /\ ret'.op = "get_parameters"
       => /\ ret'.value = ParametersOf(m_layers)
          /\ ret'.calls = GetterLog("get_parameters", NumLayers)
    /\ ret'.op = "get_derivatives"
       => /\ ret'.value = DerivativesOf(m_layers)
          /\ ret'.calls = GetterLog("get_derivatives", NumLayers)
    /\ ret'.op \in {"get_parameters", "get_derivatives"}
       => /\ Len(ret'.value) = NumLayers
          /\ NumLayers = 0 => ret'.value = <<>>
          /\ ret'.err = NoError
          /\ UNCHANGED <<netVars, rngVars, callerVars, optimizer, crashed, nops>>

C20_Getters == [][C20_GetterStep]_vars

\* get_derivatives() on three layers after an update and a backprop: the
\* gradients returned are not the parameters and not all alike.
C20_Witness ==
    /\ ret.op = "get_derivatives" /\ NumLayers = 3 /\ nops = 2
    /\ ret.value = DerivativesOf(m_layers)
    /\ ret.value # ParametersOf(m_layers)
    /\ ret.value[1] # ret.value[3]
    /\ \A i \in 1..3 :
          /\ \E j \in 1..Len(ret.value[i]) : ret.value[i][j] # 0
          /\ \E j \in 1..Len(m_layers[i].param) : m_layers[i].param[j] # 0

\* C20: both getters on an empty network.
C20_WitnessEmpty ==
    /\ ret.op \in {"get_parameters", "get_derivatives"} /\ NumLayers = 0
    /\ ret.value = <<>>

(***************************************************************************)
(* The empty pipeline.                                                     *)
(***************************************************************************)
\* C21: on a Network with no layers, forward and backprop do nothing and
\* predict returns the empty matrix: none raises, none invokes a layer or the
\* output head (which may be unset), and none changes the network, the
\* randomness source, the optimizer or the caller's callback, whatever the
\* input and the target.
C21_EmptyPipelineStep ==
    (NumLayers = 0 /\ (Performs("forward") \/ Performs("backprop") \/ Performs("predict")))
    => /\ ret'.err = NoError
       /\ ret'.calls = <<>>
       /\ ret'.value = (IF ret'.op = "predict" THEN EmptyMatrix ELSE NoArg)
       /\ UNCHANGED <<netVars, rngVars, callerVars, optimizer, crashed>>

C21_EmptyPipelineNoOps == [][C21_EmptyPipelineStep]_vars

\* A backprop on a Network with no layers and no output head, after a predict.
C21_Witness ==
    /\ ret.op = "backprop" /\ NumLayers = 0 /\ m_output = NULL
    /\ nops = 2 /\ crashed = "no" /\ ret.err = NoError
    /\ ret.args[1].rows # ret.args[2].rows

(***************************************************************************)
(* The callback handle.                                                    *)
(***************************************************************************)
\* C22: fit on a non-empty Network on which setCallback was never called (its
\* data fitting the pipeline, its output head set) runs to completion and
\* returns success; the callback handle is not unset when fit dereferences it.
C22_DefaultCallback ==
    (FitArgsFit /\ m_callback = NULL)
    => /\ ret.err # NullDeref
       /\ crashed = "no"
       /\ ret.value = "true"

\* C22: fit on one layer with an output head and no setCallback: the process
\* is terminated at the first write through m_callback.
C22_NoCallback ==
    /\ FitArgsFit /\ m_callback = NULL
    /\ NumLayers = 1 /\ FitEpoch = 1 /\ FitSamples = 1
    /\ ret.err = NullDeref /\ crashed # "no"
    /\ ret.calls[Len(ret.calls)].call = "create_shuffled_batches"
    /\ CallsNamed(ret.calls, "m_nbatch") = {}

(***************************************************************************)
(* The caller's callback.                                                  *)
(***************************************************************************)
\* C23: after setCallback, what a fit writes to the Callback (nbatch, nepoch,
\* epoch_id, batch_id) is found on the caller's own callback object.
C23_CallerCallbackWritten ==
    (ret.op = "fit" /\ NumLayers >= 1 /\ m_callback # NULL)
    => /\ user_callback.m_nbatch = CeilDiv(FitSamples, FitBatchSize)
       /\ user_callback.m_nepoch = FitEpoch
       /\ user_callback = m_callback

\* C23: a completed fit of two epochs over two batches after setCallback: the
\* Network's copy holds the counts and the last indices, the caller's object
\* is as it was when it was handed over.
C23_CopyWritten ==
    /\ FitArgsFit /\ ret.value = "true" /\ m_callback # NULL
    /\ m_callback.m_nbatch = 2 /\ m_callback.m_nepoch = 2
    /\ m_callback.m_epoch_id = 1 /\ m_callback.m_batch_id = 1
    /\ user_callback = NewCallback(1)


\* init and fit on one Network: the layers and the callback, then init and
\* training, all drawing from the Network's randomness source.
RngNext == AddLayer \/ SetCallback \/ InitNetwork \/ Fit
SpecRng == Init /\ [][RngNext]_vars


C25_FitReturn ==
    ret.op = "fit"
    => LET calls == ret.calls
           steps == FitEpoch * CeilDiv(FitSamples, FitBatchSize)
           Count(name) == Cardinality(CallsNamed(calls, name))
       IN /\ ret.value \in {"true", "false", NoArg}
          /\ (ret.value # NoArg) <=> (ret.err = NoError)
          /\ (ret.value = "false") <=> (NumLayers = 0)
          /\ ret.value = "false" => calls = <<>>
          /\ ret.value = "true"
             => /\ Count("pre_training_batch") = steps
                /\ Count("post_training_batch") = steps
                /\ \A name \in {"forward", "backprop", "update"} :
                      Count(name) = steps * NumLayers
                /\ Count("evaluate") = steps
                /\ steps >= 1
                   => LET last == calls[Len(calls)]
                      IN /\ last.call = "post_training_batch"
                         /\ last.cb.m_epoch_id = FitEpoch - 1
                         /\ last.cb.m_batch_id = CeilDiv(FitSamples, FitBatchSize) - 1

\* Five epochs over two batches on three layers: ten completed steps.
C25_Witness ==
    /\ ret.op = "fit" /\ ret.value = "true"
    /\ NumLayers = 3 /\ FitEpoch = 5 /\ FitSamples = 3 /\ FitBatchSize = 2
    /\ Cardinality(CallsNamed(ret.calls, "post_training_batch")) = 10
    /\ Cardinality(CallsNamed(ret.calls, "update")) = 30

\* fit on an empty pipeline returned false.
C25_WitnessEmpty ==
    /\ ret.op = "fit" /\ ret.value = "false" /\ NumLayers = 0 /\ FitEpoch = 2


\* C26: an error raised in a batch step of fit reaches the caller of fit and
\* ends the call.  With a callback set and E * nbatch >= 1 steps to run: an
\* input whose rows differ from layer 0's in_size makes fit raise
\* ShapeMismatch, and a target the output head rejects makes it raise
\* TargetMismatch; either way fit returns no value, the failing step is the
\* first and the only one (one pre hook: no retry, no later batch or epoch),
\* the log ends where the error was raised, and no update or post hook has
\* been performed.
C26_ErrorsSurface ==
    (/\ ret.op = "fit" /\ NumLayers >= 1 /\ m_callback # NULL
     /\ FitEpoch * CeilDiv(FitSamples, FitBatchSize) >= 1)
    => LET calls == ret.calls
           L == NumLayers
           Count(name) == Cardinality(CallsNamed(calls, name))
           rowsFit == FitX.rows = m_layers[1].in_size
           targetFits == TargetCompatible(FitY, m_layers[L])
       IN /\ ~rowsFit
             => /\ ret.err = ShapeMismatch
                /\ Count("forward") = 0
                /\ calls[Len(calls)].call = "pre_training_batch"
          /\ (rowsFit /\ m_output # NULL /\ ~targetFits)
             => /\ ret.err = TargetMismatch
                /\ Count("forward") = L
                /\ calls[Len(calls)] = Call("check_target_data", -1,
                                               HookSeq(calls, "pre_training_batch")[1].a2, NoArg)
                /\ Count("evaluate") = 0 /\ Count("backprop") = 0
          /\ ret.err \in {ShapeMismatch, TargetMismatch}
             => /\ ret.value = NoArg
                /\ Count("pre_training_batch") = 1
                /\ Count("m_epoch_id") = 1 /\ Count("m_batch_id") = 1
                /\ Count("update") = 0
                /\ Count("post_training_batch") = 0
                /\ m_callback.m_epoch_id = 0 /\ m_callback.m_batch_id = 0
          /\ (ret.err \in {ShapeMismatch, TargetMismatch}) <=> (~rowsFit \/ (m_output # NULL /\ ~targetFits))

\* A fit of two epochs over two batches whose target the output head rejected
\* in the first step.
C26_Witness ==
    /\ ret.op = "fit" /\ NumLayers = 2 /\ m_callback # NULL
    /\ FitEpoch = 2 /\ FitSamples = 3 /\ FitBatchSize = 2
    /\ ret.err = TargetMismatch /\ ret.value = NoArg
    /\ Cardinality(CallsNamed(ret.calls, "pre_training_batch")) = 1

\* The same call with an input of the wrong height: ShapeMismatch.
C26_WitnessShape ==
    /\ ret.op = "fit" /\ NumLayers = 2 /\ m_callback # NULL
    /\ FitEpoch = 2 /\ FitSamples = 3 /\ FitBatchSize = 2
    /\ ret.err = ShapeMismatch /\ ret.value = NoArg
    /\ Cardinality(CallsNamed(ret.calls, "pre_training_batch")) = 1


\* C27: on a pipeline of L >= 1 layers whose adjacent sizes agree and whose
\* output head is set, a forward whose input has layer 0's in_size rows
\* raises nothing and invokes the forward of each layer exactly once; a
\* backprop that follows it immediately with the same input and a target of
\* the last layer's output shape raises nothing either, and invokes the
\* target check, the evaluation and the backprop of each layer exactly once.
C27_ForwardThenBackpropStep ==
    (/\ NumLayers >= 1 /\ ~SizesMismatch(m_layers) /\ m_output # NULL)
    => LET L == NumLayers
           calls == ret'.calls
           Once(name) ==
               \A i \in 0..(L - 1) :
                   Cardinality({q \in CallsNamed(calls, name) : calls[q].layer = i}) = 1
       IN /\ (Performs("forward") /\ ret'.args[1].rows = m_layers[1].in_size)
             => /\ ret'.err = NoError
                /\ Len(calls) = L
                /\ Once("forward")
          /\ (/\ ret.op = "forward" /\ ret.err = NoError
              /\ Performs("backprop")
              /\ ret'.args[1] = ret.args[1]
              /\ TargetCompatible(ret'.args[2], m_layers[L]))
             => /\ ret'.err = NoError
                /\ Len(calls) = L + 2
                /\ Once("backprop")
                /\ Cardinality(CallsNamed(calls, "check_target_data")) = 1
                /\ Cardinality(CallsNamed(calls, "evaluate")) = 1
                /\ calls[2].a1 = m_layers[L].output

C27_ForwardThenBackprop == [][C27_ForwardThenBackpropStep]_vars

\* A backprop completed on three layers of agreeing sizes, on the outputs a
\* forward pass of the same input had cached.
C27_Witness ==
    /\ ret.op = "backprop" /\ ret.err = NoError /\ nops = 2
    /\ NumLayers = 3 /\ ~SizesMismatch(m_layers) /\ m_output # NULL
    /\ Cardinality(CallsNamed(ret.calls, "backprop")) = 3
    /\ ret.calls[2].call = "evaluate"
    /\ ret.calls[2].a1 = LayerForward(m_layers[3], m_layers[2].output).output
    /\ m_layers[1].output = LayerForward(m_layers[1], ret.args[1]).output


\* C28: one generator is the Network's randomness source for its lifetime.
\* Which one it is never changes, and no step changes the other generator.
\* The draws of init start from the source as the step found it (or as
\* reseeded, seed > 0), each layer continuing where the layer before it
\* stopped, and leave the source after the last draw; fit draws its batches
\* from the source as the step found it (or as reseeded) and leaves it after
\* that draw.  So an init and a fit on one Network draw from one stream, each
\* continuing where the call before it stopped.
C28_OneSourceStep ==
    LET calls == ret'.calls
        seed == ret'.args[Len(ret'.args)]
        from == IF seed > 0 THEN RngSeed(seed) ELSE ActiveRng
        inits == HookSeq(calls, "init")
    IN /\ rng_is_user' = rng_is_user
       /\ OtherRng' = OtherRng
       /\ (Performs("init") /\ ret'.err = NoError)
          => /\ Len(inits) = NumLayers
             /\ \A i \in 1..NumLayers :
                   inits[i].a1 = IF i = 1 THEN from
                                 ELSE RngAdvance(inits[i - 1].a1, Len(m_layers[i - 1].param))
             /\ ActiveRng' = IF NumLayers = 0 THEN from
                             ELSE RngAdvance(inits[NumLayers].a1,
                                             Len(m_layers[NumLayers].param))
             /\ CallsNamed(calls, "seed") # {} <=> seed > 0
       /\ (Performs("init") /\ ret'.err # NoError) => ActiveRng' = ActiveRng
       /\ (Performs("fit") /\ NumLayers >= 1)
          => /\ Cardinality(CallsNamed(calls, "create_shuffled_batches")) = 1
             /\ HookSeq(calls, "create_shuffled_batches")[1].a1 = from
             /\ ActiveRng' = RngAdvance(from, 1)
             /\ CallsNamed(calls, "seed") # {} <=> seed > 0
       /\ (Performs("fit") /\ NumLayers = 0) => ActiveRng' = ActiveRng

C28_OneSource == [][C28_OneSourceStep]_vars

\* A Network on the caller's generator: init drew the two parameters of its
\* layer, fit then drew its batches from where init had stopped, and the
\* built-in generator is as constructed.
C28_Witness ==
    /\ rng_is_user /\ ret.op = "fit" /\ FitSeed = -1 /\ ret.value = "true"
    /\ NumLayers = 1 /\ m_layers[1].in_size = 2
    /\ m_layers[1].param = LayerInit(m_layers[1], 0, 1, RngSeed(2)).param
    /\ HookSeq(ret.calls, "create_shuffled_batches")[1].a1 = RngAdvance(RngSeed(2), 2)
    /\ user_rng = RngAdvance(RngSeed(2), 3)
    /\ m_default_rng = RngSeed(1)

\* The same on a default-constructed Network.
C28_WitnessDefault ==
    /\ ~rng_is_user /\ ret.op = "fit" /\ FitSeed = -1 /\ ret.value = "true"
    /\ NumLayers = 1 /\ m_layers[1].in_size = 2
    /\ m_layers[1].param = LayerInit(m_layers[1], 0, 1, RngSeed(1)).param
    /\ HookSeq(ret.calls, "create_shuffled_batches")[1].a1 = RngAdvance(RngSeed(1), 2)
    /\ m_default_rng = RngAdvance(RngSeed(1), 3)
    /\ user_rng = RngSeed(2)


\* The layers of a pipeline by identity, in pipeline order.
LayerIds(layers) == [i \in 1..Len(layers) |-> layers[i].id]
OutputId(o) == IF o = NULL THEN 0 ELSE o.id

\* C29: a step that lengthens the pipeline is an addLayer: it appends one
\* layer and leaves the layers before it and the output head as they were; no
\* step shortens the pipeline.  A step that changes which output head the
\* Network has is a setOutput: it leaves the layers as they were and the
\* Network with one head, the new one.  Every other step (forward, backprop,
\* update, predict, init, set_parameters, fit, the getters) leaves the
\* sequence of layer identities and sizes and the identity of the head
\* unchanged.
C29_PipelineOrderStep ==
    LET n == Len(m_layers) IN
    /\ Len(m_layers') \in {n, n + 1}
    /\ Len(m_layers') = n + 1
       => /\ ret'.op = "Network" /\ nops' = 0
          /\ SubSeq(m_layers', 1, n) = m_layers
          /\ m_layers'[n + 1].id \notin {m_layers[i].id : i \in 1..n}
          /\ m_output' = m_output
    /\ Len(m_layers') = n
       => /\ LayerIds(m_layers') = LayerIds(m_layers)
          /\ \A i \in 1..n : /\ m_layers'[i].in_size = m_layers[i].in_size
                             /\ m_layers'[i].out_size = m_layers[i].out_size
    /\ OutputId(m_output') # OutputId(m_output)
       => /\ ret'.op = "Network" /\ nops' = 0
          /\ m_layers' = m_layers
          /\ m_output' \in {NewOutput(1), NewOutput(2)}
    /\ nops' # nops => OutputId(m_output') = OutputId(m_output)

C29_PipelineOrder == [][C29_PipelineOrderStep]_vars

\* Three layers in the order added, under the second output head, after two
\* operations that left parameters on the last layer, the later an update.
C29_Witness ==
    /\ LayerIds(m_layers) = <<1, 2, 3>>
    /\ OutputId(m_output) = 2
    /\ ret.op = "update" /\ nops = 2
    /\ \E j \in 1..Len(m_layers[3].param) : m_layers[3].param[j] # 0


\* C30: predict on a pipeline of L >= 1 layers is one forward pass on x and
\* nothing else.  It raises ShapeMismatch exactly when x's rows differ from
\* layer 0's in_size, as forward does, and then has invoked nothing;
\* otherwise its log is the forward of layers 0..L-1, once each in this
\* order, layer 0 on x, and the value returned is the output the last layer
\* cached in this pass.  The output head, the optimizer and the Callback are
\* left as they were, and no layer's parameters or gradients change.
C30_PredictStep ==
    (Performs("predict") /\ NumLayers >= 1)
    => LET L == NumLayers
           x == ret'.args[1]
           calls == ret'.calls
           f == forward(Ctx, x)
       IN /\ ret'.err \in {NoError, ShapeMismatch}
          /\ (ret'.err = ShapeMismatch) <=> (x.rows # m_layers[1].in_size)
          /\ ret'.err = f.err /\ calls = f.calls /\ m_layers' = f.layers
          /\ ret'.err = ShapeMismatch
             => /\ calls = <<>>
                /\ ret'.value = NoArg
                /\ m_layers' = m_layers
          /\ ret'.err = NoError
             => /\ Len(calls) = L
                /\ \A i \in 0..(L - 1) :
                      /\ calls[i + 1].call = "forward"
                      /\ calls[i + 1].layer = i
                /\ calls[1].a1 = x
                /\ ret'.value = m_layers'[L].output
                /\ ret'.value = LayerForward(m_layers[L], calls[L].a1).output
                /\ ret'.value.rows = m_layers[L].out_size
                /\ ret'.value.cols = x.cols
          /\ m_output' = m_output
          /\ optimizer' = optimizer
          /\ m_callback' = m_callback /\ user_callback' = user_callback
          /\ \A i \in 1..L : /\ m_layers'[i].param = m_layers[i].param
                             /\ m_layers'[i].deriv = m_layers[i].deriv
                             /\ m_layers'[i].bpdata = m_layers[i].bpdata

C30_Predict == [][C30_PredictStep]_vars

\* A prediction of three layers, made after an update gave them parameters.
C30_Witness ==
    /\ ret.op = "predict" /\ ret.err = NoError /\ NumLayers = 3 /\ nops = 2
    /\ Len(ret.calls) = 3
    /\ ret.value = m_layers[3].output
    /\ ret.value # m_layers[1].output
    /\ \E j \in 1..Len(m_layers[3].param) : m_layers[3].param[j] # 0

\* A prediction refused for the height of its input.
C30_WitnessShape ==
    /\ ret.op = "predict" /\ ret.err = ShapeMismatch /\ NumLayers = 2
    /\ ret.calls = <<>> /\ ret.value = NoArg


(***************************************************************************)
(* Re-execution of forward and backprop.                                   *)
(***************************************************************************)
\* What the layers and the output head cache: outputs, backprop data,
\* gradients, loss.
CachedState(c) ==
    [outputs |-> [i \in 1..Len(c.layers) |-> c.layers[i].output],
     bpdata  |-> [i \in 1..Len(c.layers) |-> c.layers[i].bpdata],
     derivs  |-> DerivativesOf(c.layers),
     loss    |-> c.output.loss,
     head    |-> c.output.bpdata]

\* forward(input); backprop(input, target) from the state c, with a fresh log.
ForwardBackprop(c, input, target) ==
    backprop(forward([c EXCEPT !.calls = <<>>, !.err = NoError], input), input, target)

\* Every parameter of every layer moved by one.
Perturbed(layers) ==
    [i \in 1..Len(layers) |->
        [j \in 1..Len(layers[i].param) |-> (layers[i].param[j] + 1) % ScalarMod]]

\* C31: after a forward(input) and a backprop(input, target) that raised
\* nothing, running the pair again with the same input and target, once or
\* twice, leaves every layer's cached output, backprop data and gradient, the
\* output head's loss and gradient and the value of get_derivatives() as the
\* first execution left them, and the parameters untouched.  Moving every
\* parameter by set_parameters, running the pair, restoring the parameters by
\* set_parameters and running the pair again gives that state once more.
C31_ReExecutionStep ==
    (/\ NumLayers >= 1
     /\ ret.op = "forward" /\ ret.err = NoError
     /\ Performs("backprop") /\ ret'.err = NoError
     /\ ret'.args[1] = ret.args[1])
    => LET x == ret'.args[1]
           t == ret'.args[2]
           first == [Ctx EXCEPT !.layers = m_layers', !.output = m_output']
           second == ForwardBackprop(first, x, t)
           third == ForwardBackprop(second, x, t)
           moved == set_parameters(first, Perturbed(first.layers))
           trial == ForwardBackprop(moved, x, t)
           restored == set_parameters(trial, ParametersOf(first.layers))
           again == ForwardBackprop(restored, x, t)
       IN /\ second.err = NoError /\ third.err = NoError
          /\ CachedState(second) = CachedState(first)
          /\ CachedState(third) = CachedState(first)
          /\ second.layers = first.layers /\ second.output = first.output
          /\ get_derivatives(second).value = get_derivatives(first).value
          /\ get_derivatives(first).value = DerivativesOf(m_layers')
          /\ moved.err = NoError /\ restored.err = NoError /\ again.err = NoError
          /\ ParametersOf(trial.layers) = Perturbed(first.layers)
          /\ CachedState(again) = CachedState(first)
          /\ again.layers = first.layers /\ again.output = first.output

C31_ReExecution == [][C31_ReExecutionStep]_vars

\* A backprop after a forward of the same input on three layers, where the
\* trial with moved parameters cached something else.
C31_Witness ==
    /\ ret.op = "backprop" /\ ret.err = NoError /\ nops = 2 /\ NumLayers = 3
    /\ m_layers[1].output = LayerForward(m_layers[1], ret.args[1]).output
    /\ CachedState(ForwardBackprop(Ctx, ret.args[1], ret.args[2])) = CachedState(Ctx)
    /\ CachedState(ForwardBackprop(set_parameters(Ctx, Perturbed(m_layers)),
                                   ret.args[1], ret.args[2])) # CachedState(Ctx)


\* C32 as stated: a fit on a non-empty pipeline whose data fit the pipeline
\* (no collaborator raises) runs exactly E * nbatch steps, each from its pre
\* hook to its post hook, and then returns true.
C32_NoCancellation ==
    FitArgsFit
    => LET steps == FitEpoch * CeilDiv(FitSamples, FitBatchSize)
       IN /\ ret.value = "true"
          /\ Cardinality(CallsNamed(ret.calls, "pre_training_batch")) = steps
          /\ Cardinality(CallsNamed(ret.calls, "post_training_batch")) = steps

\* The same for a Network that was given a callback, of either class: the
\* steps are those of the pairs (k, i), k < E, i < nbatch, in order, each
\* with its forward, backprop and update, whatever the hooks wrote into the
\* callback.
C32_NoCancellationWithCallback ==
    (FitArgsFit /\ m_callback # NULL)
    => LET nb == CeilDiv(FitSamples, FitBatchSize)
           steps == FitEpoch * nb
           pre == HookSeq(ret.calls, "pre_training_batch")
           post == HookSeq(ret.calls, "post_training_batch")
       IN /\ ret.value = "true" /\ ret.err = NoError
          /\ Len(pre) = steps /\ Len(post) = steps
          /\ \A s \in 1..steps :
                /\ pre[s].cb.m_epoch_id = (s - 1) \div nb
                /\ pre[s].cb.m_batch_id = (s - 1) % nb
                /\ post[s].a1 = pre[s].a1
          /\ \A name \in {"forward", "backprop", "update"} :
                Cardinality(CallsNamed(ret.calls, name)) = steps * NumLayers

\* A fit of two epochs over two batches without a callback: no step was run.
C32_NoCallback ==
    /\ FitArgsFit /\ m_callback = NULL
    /\ NumLayers = 2 /\ FitEpoch = 2 /\ FitSamples = 3 /\ FitBatchSize = 2
    /\ ret.err = NullDeref /\ crashed # "no" /\ ret.value = NoArg
    /\ CallsNamed(ret.calls, "pre_training_batch") = {}
    /\ CallsNamed(ret.calls, "forward") = {}

\* A fit of two epochs over two batches whose hooks declared the training
\* over from the first hook on: all four steps were run.
C32_HooksIgnored ==
    /\ FitArgsFit /\ m_callback # NULL /\ m_callback.id = 2
    /\ NumLayers = 2 /\ FitEpoch = 2 /\ FitSamples = 3 /\ FitBatchSize = 2
    /\ m_callback.m_nepoch = 0 /\ m_callback.m_nbatch = 0
    /\ ret.value = "true"
    /\ Cardinality(CallsNamed(ret.calls, "post_training_batch")) = 4
    /\ HookSeq(ret.calls, "forward")[1].a1 = HookSeq(ret.calls, "pre_training_batch")[1].a1


\* C33: a fit call on a non-empty pipeline creates its mini-batches exactly
\* once, before the first epoch and the first hook, from the randomness
\* source as reseeded (seed > 0) or as found.  Every step (k, i) it runs is
\* given batch i of that one partition, members and order as in epoch 0, and
\* the source is left as the creation of the batches left it: nothing
\* advances it afterwards.
C33_PartitionReusedStep ==
    (Performs("fit") /\ NumLayers >= 1)
    => LET calls == ret'.calls
           x == ret'.args[1]
           y == ret'.args[2]
           seed == ret'.args[5]
           from == IF seed > 0 THEN RngSeed(seed) ELSE ActiveRng
           bs == create_shuffled_batches(x, y, ret'.args[3], from)
           made == CallsNamed(calls, "create_shuffled_batches")
       IN /\ Cardinality(made) = 1
          /\ \A q \in made :
                /\ calls[q].a1 = from
                /\ \A e \in CallsNamed(calls, "m_epoch_id") \cup Hooks(calls) : q < e
          /\ ActiveRng' = bs.rng
          /\ \A q \in Hooks(calls) :
                /\ calls[q].cb.m_batch_id \in 0..(bs.nbatch - 1)
                /\ calls[q].a1 = bs.x_batches[calls[q].cb.m_batch_id + 1]
                /\ calls[q].a2 = bs.y_batches[calls[q].cb.m_batch_id + 1]
          /\ \A q \in PreHooks(calls) :
                (q < Len(calls) /\ calls[q + 1].call = "forward")
                => calls[q + 1].a1 = bs.x_batches[calls[q].cb.m_batch_id + 1]

C33_PartitionReused == [][C33_PartitionReusedStep]_vars

\* A completed fit of two epochs over two batches shuffled under seed 1: the
\* steps of epoch 1 were given the batches of epoch 0.
C33_Witness ==
    /\ FitArgsFit /\ ret.value = "true" /\ FitSeed = 1
    /\ FitSamples = 3 /\ FitBatchSize = 2 /\ FitEpoch = 2
    /\ LET pre == HookSeq(ret.calls, "pre_training_batch")
       IN /\ Len(pre) = 4
          /\ pre[3].a1 = pre[1].a1 /\ pre[4].a1 = pre[2].a1
          /\ pre[3].a2 = pre[1].a2 /\ pre[4].a2 = pre[2].a2
          /\ pre[1].a1 # pre[2].a1
          /\ pre[1].a1.cols # <<1, 2>>
    /\ ActiveRng = RngAdvance(RngSeed(1), 1)


\* C34: a fit step on a Network without layers changes nothing: the
\* optimizer is not reset, neither generator is reseeded or advanced (not
\* even when seed > 0), the layers, the output head and both callbacks are as
\* they were, and nothing was invoked, not even the creation of the batches.
\* What it does is the same whatever x and y are.
C34_EmptyFitFrameStep ==
    (Performs("fit") /\ NumLayers = 0)
    => /\ optimizer' = optimizer
       /\ m_default_rng' = m_default_rng /\ user_rng' = user_rng
       /\ rng_is_user' = rng_is_user
       /\ m_layers' = m_layers /\ m_output' = m_output
       /\ m_callback' = m_callback /\ user_callback' = user_callback
       /\ crashed' = crashed
       /\ ret'.calls = <<>> /\ ret'.err = NoError /\ ret'.value = "false"
       /\ \A xr \in Rows, yr \in Rows, n \in 1..MaxSamples :
             fit(Ctx, DataSet(xr, n, 0), DataSet(yr, n, 1),
                 ret'.args[3], ret'.args[4], ret'.args[5])
             = [ctx |-> Ctx, value |-> "false"]

C34_EmptyFitFrame == [][C34_EmptyFitFrameStep]_vars

\* fit with seed 2 and two epochs on an empty Network with an output head: the
\* optimizer still holds the state it had and the generators their first states.
C34_Witness ==
    /\ ret.op = "fit" /\ NumLayers = 0 /\ ret.value = "false"
    /\ FitSeed = 2 /\ FitEpoch = 2 /\ m_output # NULL
    /\ optimizer.state = 1 /\ OptimizerReset(optimizer) # optimizer
    /\ m_default_rng = RngSeed(1) /\ user_rng = RngSeed(2)
    /\ ActiveRng # RngAdvance(RngSeed(FitSeed), 1)


\* What C35 says of a fit step with no epoch to run: it returns true
\* having invoked no hook and no layer operation, and has reset the
\* optimizer, reseeded the source if seed > 0 and advanced it by one shuffle,
\* and written nbatch and nepoch to the Callback.
ZeroEpochEffects ==
    LET calls == ret'.calls
        seed == ret'.args[5]
        from == IF seed > 0 THEN RngSeed(seed) ELSE ActiveRng
    IN /\ ret'.value = "true" /\ ret'.err = NoError
       /\ Hooks(calls) = {}
       /\ \A q \in 1..Len(calls) : calls[q].layer = -1
       /\ calls = Preamble(ret'.args, optimizer, ActiveRng)
       /\ optimizer' = OptimizerReset(optimizer)
       /\ ActiveRng' = RngAdvance(from, 1)
       /\ m_callback' # NULL
       /\ m_callback'.m_nbatch = CeilDiv(Len(ret'.args[1].cols), ret'.args[3])
       /\ m_callback'.m_nepoch = ret'.args[4]
       /\ m_layers' = m_layers /\ m_output' = m_output

\* C35 as stated: every fit step on a non-empty pipeline with
\* epoch_count <= 0 has these effects.
C35_ZeroEpochStep ==
    (Performs("fit") /\ NumLayers >= 1 /\ ret'.args[4] <= 0) => ZeroEpochEffects

C35_ZeroEpochFit == [][C35_ZeroEpochStep]_vars

\* The same for a Network that was given a callback; a negative epoch_count
\* does what 0 does, and is the value written to nepoch.
C35_WithCallbackStep ==
    (Performs("fit") /\ NumLayers >= 1 /\ ret'.args[4] <= 0 /\ m_callback # NULL)
    => /\ ZeroEpochEffects
       /\ LET neg == fit(Ctx, ret'.args[1], ret'.args[2], ret'.args[3], -1, ret'.args[5])
          IN /\ neg.value = "true"
             /\ neg.ctx.callback = [m_callback' EXCEPT !.m_nepoch = -1]
             /\ [neg.ctx EXCEPT !.callback = m_callback', !.calls = <<>>]
                = [Ctx EXCEPT !.callback = m_callback', !.opt = optimizer',
                              !.rng = ActiveRng']
             /\ Len(neg.ctx.calls) = Len(ret'.calls)
             /\ neg.ctx.calls[Len(ret'.calls)] = Call("m_nepoch", -1, -1, NoArg)

C35_ZeroEpochFitWithCallback == [][C35_WithCallbackStep]_vars

\* fit with epoch_count 0 and no seed on a Network without a callback: the
\* optimizer was reset and the source advanced, and the process died.
C35_NoCallback ==
    /\ ret.op = "fit" /\ NumLayers >= 1 /\ m_callback = NULL
    /\ FitEpoch = 0 /\ FitSeed <= 0
    /\ crashed # "no" /\ ret.err = NullDeref /\ ret.value = NoArg
    /\ optimizer.state = 0
    /\ Len(ret.calls) = 2

\* fit with epoch_count 0 under seed 2 on a Network with a callback and an
\* optimizer in use: true, and the effects of the preamble.
C35_Returned ==
    /\ ret.op = "fit" /\ NumLayers >= 1 /\ m_callback # NULL
    /\ FitEpoch = 0 /\ FitSeed = 2 /\ FitSamples = 3 /\ FitBatchSize = 2
    /\ ret.value = "true" /\ Len(ret.calls) = 5
    /\ optimizer.state = 0
    /\ ActiveRng = RngAdvance(RngSeed(2), 1)
    /\ m_callback.m_nbatch = 2 /\ m_callback.m_nepoch = 0


\* C36: a fit step that raised ShapeMismatch or TargetMismatch leaves what it
\* had done.  The pre hooks outnumber the post hooks by exactly one, and the
\* step of the last pre hook has no update and no post hook; the updates made
\* are those of the completed steps, L for each.  The optimizer is as reset
\* (and as the completed steps' updates left it), the source is as reseeded
\* or found and advanced by the one shuffle, the Callback holds nbatch,
\* nepoch and the indices of the failing step.  When the failing step is the
\* first, the parameters are as the call found them, and the layers cache
\* what the forward of the failing batch left: nothing at all after
\* ShapeMismatch, the outputs of the whole pass after TargetMismatch.
C36_NoRollbackStep ==
    (Performs("fit") /\ ret'.err \in {ShapeMismatch, TargetMismatch})
    => LET calls == ret'.calls
           L == NumLayers
           seed == ret'.args[5]
           from == IF seed > 0 THEN RngSeed(seed) ELSE ActiveRng
           pre == PreHooks(calls)
           post == CallsNamed(calls, "post_training_batch")
           last == CHOOSE q \in pre : \A r \in pre : r <= q
       IN /\ Cardinality(pre) = Cardinality(post) + 1
          /\ \A q \in post \cup CallsNamed(calls, "update") : q < last
          /\ Cardinality(CallsNamed(calls, "update")) = L * Cardinality(post)
          /\ Cardinality(CallsNamed(calls, "reset")) = 1
          /\ ActiveRng' = RngAdvance(from, 1)
          /\ m_callback'.m_nbatch = CeilDiv(Len(ret'.args[1].cols), ret'.args[3])
          /\ m_callback'.m_nepoch = ret'.args[4]
          /\ m_callback'.m_epoch_id = calls[last].cb.m_epoch_id
          /\ m_callback'.m_batch_id = calls[last].cb.m_batch_id
          /\ post = {}
             => /\ optimizer' = OptimizerReset(optimizer)
                /\ ParametersOf(m_layers') = ParametersOf(m_layers)
                /\ DerivativesOf(m_layers') = DerivativesOf(m_layers)
                /\ m_output' = m_output
                /\ ret'.err = ShapeMismatch => m_layers' = m_layers
                /\ ret'.err = TargetMismatch
                   => m_layers' = forward(Ctx, calls[last].a1).layers

C36_NoRollback == [][C36_NoRollbackStep]_vars

\* A fit under seed 2 whose first target the output head rejected, on two
\* layers: the optimizer is reset, the source advanced, the Callback written
\* and the layers hold the outputs of the failed step's forward.
C36_Witness ==
    /\ ret.op = "fit" /\ ret.err = TargetMismatch /\ NumLayers = 2
    /\ FitSeed = 2 /\ FitEpoch = 2 /\ FitSamples = 3 /\ FitBatchSize = 2
    /\ optimizer.state = 0
    /\ ActiveRng = RngAdvance(RngSeed(2), 1)
    /\ m_callback.m_nbatch = 2 /\ m_callback.m_nepoch = 2
    /\ m_layers[2].output # EmptyMatrix
    /\ Cardinality(PreHooks(ret.calls)) = 1
    /\ CallsNamed(ret.calls, "post_training_batch") = {}

\* The same call refused for the height of its input: the layers cache nothing.
C36_WitnessShape ==
    /\ ret.op = "fit" /\ ret.err = ShapeMismatch /\ NumLayers = 2
    /\ FitSeed = 2 /\ FitEpoch = 2 /\ FitSamples = 3 /\ FitBatchSize = 2
    /\ optimizer.state = 0
    /\ ActiveRng = RngAdvance(RngSeed(2), 1)
    /\ m_layers[1].output = EmptyMatrix
    /\ Cardinality(PreHooks(ret.calls)) = 1


\* C37: set_parameters hands the values to the layers one by one in pipeline
\* order and stops at the first layer that rejects its own.  When the outer
\* length is right and layer k is the first to reject, the error of that
\* layer reaches the caller, the log is the set_parameters of layers 0..k,
\* layers 0..k-1 hold the new values and layers k..L-1 are as they were.
C37_NotAtomicStep ==
    (Performs("set_parameters") /\ Len(ret'.args[1]) = NumLayers)
    => LET param == ret'.args[1]
           L == NumLayers
           rejecting == {i \in 1..L : ~LayerAccepts(m_layers[i], param[i])}
       IN /\ (ret'.err = InnerLengthMismatch) <=> (rejecting # {})
          /\ rejecting = {} => ret'.err = NoError
          /\ rejecting # {}
             => LET k == CHOOSE i \in rejecting : \A j \in rejecting : i <= j
                IN /\ ret'.calls = [i \in 1..k |->
                                       Call("set_parameters", i - 1, param[i], NoArg)]
                   /\ \A i \in 1..(k - 1) :
                         /\ m_layers'[i].param = param[i]
                         /\ m_layers'[i] = LayerSetParameters(m_layers[i], param[i])
                   /\ \A i \in k..L : m_layers'[i] = m_layers[i]

C37_NotAtomic == [][C37_NotAtomicStep]_vars

\* Three layers with parameters drawn by init; set_parameters gave layer 0 its
\* new values, was refused by layer 1, and layer 2 keeps its old values
\* although it would have accepted the new ones.
C37_Witness ==
    /\ ret.op = "set_parameters" /\ ret.err = InnerLengthMismatch
    /\ NumLayers = 3 /\ Len(ret.args[1]) = 3 /\ Len(ret.calls) = 2
    /\ m_layers[1].param = ret.args[1][1]
    /\ ~LayerAccepts(m_layers[2], ret.args[1][2])
    /\ LayerAccepts(m_layers[3], ret.args[1][3])
    /\ m_layers[3].param # ret.args[1][3]
    /\ \E j \in 1..Len(m_layers[3].param) : m_layers[3].param[j] # 0


\* The partition fit would cut x into from the source in state rng.
PartitionFrom(args, rng) ==
    create_shuffled_batches(args[1], args[2], args[3], rng).x_batches

\* C38: the fit calls and init of one Network draw from one stream.  An
\* unseeded fit (seed <= 0) draws its permutation from the source as the
\* call before it left it: a second unseeded fit draws from the state the
\* first left behind, one shuffle further, and an unseeded fit after an init
\* draws from where init's last draw stopped.  Two fits with the same
\* seed > 0 both draw from the source as seeded, hence the same permutation.
C38_SharedStreamStep ==
    (Performs("fit") /\ NumLayers >= 1 /\ ret'.err # NullDeref)
    => LET args == ret'.args
           seed == args[5]
           first == HookSeq(ret'.calls, "create_shuffled_batches")[1].a1
           after == [Ctx EXCEPT !.layers = m_layers', !.output = m_output',
                                !.callback = m_callback', !.opt = optimizer',
                                !.rng = ActiveRng']
           again == fit(after, args[1], args[2], args[3], 0, seed)
           second == HookSeq(again.ctx.calls, "create_shuffled_batches")[1].a1
       IN /\ seed <= 0
             => /\ first = ActiveRng
                /\ second = ActiveRng'
                /\ second = RngAdvance(first, 1)
                /\ second # first
                /\ (ret.op = "init" /\ ret.err = NoError)
                   => LET inits == HookSeq(ret.calls, "init")
                      IN first = RngAdvance(inits[NumLayers].a1,
                                            Len(m_layers[NumLayers].param))
          /\ seed > 0
             => /\ first = RngSeed(seed)
                /\ second = first
                /\ PartitionFrom(args, second) = PartitionFrom(args, first)
                /\ again.ctx.rng = ActiveRng'

C38_SharedStream == [][C38_SharedStreamStep]_vars

\* An unseeded fit on three samples in batches of two after which the same
\* call would cut the samples into other batches.
C38_Witness ==
    /\ ret.op = "fit" /\ NumLayers >= 1 /\ m_callback # NULL /\ ret.err = NoError
    /\ FitSeed <= 0 /\ FitSamples = 3 /\ FitBatchSize = 2
    /\ PartitionFrom(ret.args, ActiveRng)
       # PartitionFrom(ret.args, HookSeq(ret.calls, "create_shuffled_batches")[1].a1)

\* An unseeded fit after an init that drew two parameters: its batches are
\* not those a fit directly after construction would have drawn.
C38_WitnessInit ==
    /\ ret.op = "fit" /\ NumLayers = 1 /\ m_callback # NULL /\ ret.err = NoError
    /\ FitSeed <= 0 /\ FitSamples = 3 /\ FitBatchSize = 2
    /\ m_layers[1].param # <<0, 0>> /\ Len(m_layers[1].param) = 2
    /\ LET built == IF rng_is_user THEN RngSeed(2) ELSE RngSeed(1)
       IN /\ HookSeq(ret.calls, "create_shuffled_batches")[1].a1 = RngAdvance(built, 2)
          /\ PartitionFrom(ret.args, RngAdvance(built, 2)) # PartitionFrom(ret.args, built)


\* C39: backprop does not look at what forward pass, if any, preceded it.  On
\* a pipeline of L >= 1 layers with an output head it raises TargetMismatch
\* exactly when the head rejects the target and nothing otherwise; the head
\* evaluates the output the last layer holds from whatever forward ran last
\* (none at all included), and each layer i >= 1 is handed the output layer
\* i-1 holds, whether or not it came from the input passed to backprop.
C39_StaleForwardStep ==
    (Performs("backprop") /\ NumLayers >= 1 /\ m_output # NULL)
    => LET L == NumLayers
           calls == ret'.calls
           input == ret'.args[1]
           target == ret'.args[2]
           fits == TargetCompatible(target, m_layers[L])
       IN /\ ret'.err = IF fits THEN NoError ELSE TargetMismatch
          /\ calls[1] = Call("check_target_data", -1, target, NoArg)
          /\ ~fits => Len(calls) = 1 /\ m_layers' = m_layers
          /\ fits
             => /\ Len(calls) = L + 2
                /\ calls[2] = Call("evaluate", -1, m_layers[L].output, target)
                /\ \A i \in 1..L :
                      LET e == calls[2 + (L + 1 - i)]
                      IN /\ e.call = "backprop" /\ e.layer = i - 1
                         /\ e.a1 = IF i = 1 THEN input ELSE m_layers[i - 1].output
                /\ \A i \in 1..L : m_layers'[i].output = m_layers[i].output

C39_StaleForward == [][C39_StaleForwardStep]_vars

\* A backprop that succeeded after a forward pass on other data: the layers
\* were handed the outputs of that pass.
C39_Witness ==
    /\ ret.op = "backprop" /\ ret.err = NoError /\ NumLayers = 2 /\ nops = 2
    /\ m_layers[1].output # EmptyMatrix
    /\ m_layers[1].output # LayerForward(m_layers[1], ret.args[1]).output
    /\ ret.calls[3].a1 = m_layers[1].output
    /\ ret.calls[2].a1 = m_layers[2].output

\* A backprop that succeeded on a Network on which no forward pass ever ran.
C39_WitnessNoForward ==
    /\ ret.op = "backprop" /\ ret.err = NoError /\ NumLayers = 2 /\ nops = 1
    /\ m_layers[1].output = EmptyMatrix /\ m_layers[2].output = EmptyMatrix
    /\ ret.calls[2] = Call("evaluate", -1, EmptyMatrix, ret.args[2])

=============================================================================
